---- MODULE Spec2Model ----
(***************************************************************************)
(* A model of the yamake build orchestrator.                               *)
(*                                                                         *)
(* Two programs of the repository are modelled over one declaration graph: *)
(*   - yamake.py:       BuildCLI = Builder.Initialize, Builder.Enqueue,    *)
(*                      Builder.OrderByDepends          (SpecCLI)          *)
(*   - yamake/core.py:  run_targets = _calculate_providers,                *)
(*                      _resolve_dependencies, _order_by_dependencies and  *)
(*                      the execution loop              (SpecRun)          *)
(* Target names are strings; NameOrder lists them in ascending order.      *)
(***************************************************************************)
EXTENDS Integers, Sequences, FiniteSets, TLC

\* ------------------------------------------------------------------------
\* Bounds of the model
\* ------------------------------------------------------------------------
\* Most depends/provides edges of a generated declaration file.
MaxEdges == 2
\* Largest file modification time (0 stands for "file absent").
MaxTime == 2

\* ------------------------------------------------------------------------
\* Names and generic helpers
\* ------------------------------------------------------------------------
NameOrder ==
    << "a", "any", "art", "b", "c", "d", "default", "feat", "impl0",
       "impl1", "impl2",
       "lib_a", "lib_b", "plat", "plat_a", "plat_b", "src", "user" >>

AllNames == { NameOrder[i] : i \in 1..Len(NameOrder) }

Rank(n) == CHOOSE i \in 1..Len(NameOrder) : NameOrder[i] = n

\* Target.__lt__ : targets compare by name.
NameLess(x, y) == Rank(x) < Rank(y)

RECURSIVE SortByName(_)
SortByName(S) ==
    IF S = {} THEN << >>
    ELSE LET m == CHOOSE x \in S : \A y \in S : x = y \/ NameLess(x, y)
         IN  << m >> \o SortByName(S \ {m})

\* Every listing of a set: the iteration order of a Python set of objects
\* is not fixed by the program.
RECURSIVE Perms(_)
Perms(S) ==
    IF S = {} THEN { << >> }
    ELSE UNION { { << x >> \o p : p \in Perms(S \ {x}) } : x \in S }

Range(s) == { s[i] : i \in 1..Len(s) }

RECURSIVE Flatten(_)
Flatten(ls) == IF ls = << >> THEN << >> ELSE Head(ls) \o Flatten(Tail(ls))

RECURSIVE KSubsets(_, _)
KSubsets(S, k) ==
    IF k = 0 THEN { {} }
    ELSE LET prev == KSubsets(S, k - 1)
         IN  prev \cup { s \cup {x} : s \in prev, x \in S }

NoDup(s) == \A i, j \in 1..Len(s) : s[i] = s[j] => i = j

\* ------------------------------------------------------------------------
\* State
\* ------------------------------------------------------------------------
VARIABLES
    \* the declarations (the build file / the decorator index)
    targets,          \* names of the declared targets
    depends,          \* depends[t]  : names t depends on
    provides,         \* provides[t] : names t provides
    exists,           \* targets that declare an artifact path
    actions,          \* targets that declare an action
    essential,        \* targets flagged essential
    cleans,           \* targets with a clean callback (core.py)
    check_mtime,      \* targets whose freshness uses the file mtime (core.py)
    index_essentials, \* index.essentials (core.py)
    default_targets,  \* index.default_targets (core.py)
    is_default,       \* targets whose is_default flag is set (core.py)
    target_name,      \* target_name[t] : Target.name of the target registered as t
    args,             \* the requested target names
    \* both programs
    pc,               \* position in BuildCLI / run_targets
    err,              \* the exception that ended the run, or "none"
    result,           \* the success code returned
    \* BuildCLI (yamake.py)
    dProviders,       \* what Builder.Initialize returned
    enq,              \* the locals of Builder.Enqueue
    lOrdered,         \* what Builder.OrderByDepends returned
    lOutput,          \* the AMBIGUOUS lines of lOutput: target |-> candidates;
                      \* with --json-output, the lines of Builder.JSONOutput
    document,         \* the build file a JSON output was read back from
    hook,             \* the last extension hook called and what it returned
    \* run_targets (core.py)
    fs,               \* fs[t] : mtime of t's artifact file, 0 when absent
    mtime,            \* mtime[t] : Target.mtime, 0 for None
    clean_mode,
    dry_run,
    targets_to_build, \* what _resolve_dependencies returned
    ordered_targets,  \* what _order_by_dependencies returned
    position,         \* index of the next target of the execution loop
    messages,         \* the messages collected so far
    invoked,          \* the callbacks invoked so far, in order
    returned,         \* how each of them ended: "raised", "falsy" or "value"
    previous          \* the finished earlier run of the same command, if any

declVars == << targets, depends, provides, exists, actions, essential,
               cleans, check_mtime, index_essentials, default_targets,
               is_default, target_name >>
cliVars == << dProviders, enq, lOrdered, lOutput, document, hook >>
runVars == << fs, mtime, clean_mode, dry_run, targets_to_build, ordered_targets,
              position, messages, invoked, returned, previous >>
vars == << declVars, args, pc, err, result, cliVars, runVars >>


\* ------------------------------------------------------------------------
\* Declaration files
\* ------------------------------------------------------------------------
\* A declaration file: the targets, the depends and provides edges (pairs
\* <<target, name>>), the targets with an artifact path, the targets with an
\* action and the targets flagged essential.
Decl(T, D, P, X, A, E) ==
    [ targets   |-> T,
      depends   |-> [ t \in AllNames |-> { e[2] : e \in { f \in D : f[1] = t } } ],
      provides  |-> [ t \in AllNames |-> { e[2] : e \in { f \in P : f[1] = t } } ],
      exists    |-> X,
      actions   |-> A,
      essential |-> E ]

GenNames == { "a", "b", "c" }

\* Generated files over GenNames: at most MaxEdges edges, at most one
\* abstract target and at most one essential target.
GenEdges == KSubsets({ "d", "p" } \X GenNames \X GenNames, MaxEdges)

GenDecls ==
    { Decl(GenNames,
           { << e[2], e[3] >> : e \in { f \in E : f[1] = "d" } },
           { << e[2], e[3] >> : e \in { f \in E : f[1] = "p" } },
           {}, GenNames \ Ab, Es) :
        E \in GenEdges, Ab \in KSubsets(GenNames, 1), Es \in KSubsets(GenNames, 1) }

\* The scenarios of the specification (section 8).
Linear ==
    Decl({ "a", "b", "c" }, { << "a", "b" >>, << "b", "c" >> }, {},
         {}, { "a", "b", "c" }, {})

Diamond ==
    Decl({ "a", "b", "c", "d" },
         { << "a", "b" >>, << "a", "c" >>, << "b", "d" >>, << "c", "d" >> }, {},
         {}, { "a", "b", "c", "d" }, {})

AbstractCover ==
    Decl({ "feat", "impl1", "user" }, { << "user", "feat" >> },
         { << "impl1", "feat" >> }, {}, { "impl1", "user" }, {})

Ambiguous ==
    Decl({ "feat", "impl1", "impl2", "user" }, { << "user", "feat" >> },
         { << "impl1", "feat" >>, << "impl2", "feat" >> },
         {}, { "impl1", "impl2", "user" }, {})

EssentialDepends ==
    { << "lib_a", "plat_a" >>, << "lib_b", "plat_b" >>,
      << "user", "feat" >>, << "user", "plat_a" >> }

EssentialProvides == { << "lib_a", "feat" >>, << "lib_b", "feat" >> }

\* Scenario 4 with a further target that provides one of the providers.
AmbiguousTransitive ==
    Decl({ "feat", "impl0", "impl1", "impl2", "user" }, { << "user", "feat" >> },
         { << "impl1", "feat" >>, << "impl2", "feat" >>, << "impl0", "impl1" >> },
         {}, { "impl0", "impl1", "impl2", "user" }, {})

\* Scenario 5 as written: plat_a and plat_b are the essentials.
EssentialSelection ==
    Decl({ "feat", "lib_a", "lib_b", "plat_a", "plat_b", "user" },
         EssentialDepends, EssentialProvides,
         {}, { "lib_a", "lib_b", "plat_a", "plat_b", "user" },
         { "plat_a", "plat_b" })

\* Scenario 5 with the essential family declared the way the example build
\* files do: an abstract essential "plat" that plat_a and plat_b provide.
EssentialFamily ==
    Decl({ "feat", "lib_a", "lib_b", "plat", "plat_a", "plat_b", "user" },
         EssentialDepends,
         EssentialProvides \cup { << "plat_a", "plat" >>, << "plat_b", "plat" >> },
         {}, { "lib_a", "lib_b", "plat_a", "plat_b", "user" }, { "plat" })

\* A dependency cycle through four targets.
Cycle ==
    Decl({ "a", "b", "c", "d" },
         { << "a", "b" >>, << "b", "c" >>, << "c", "d" >>, << "d", "a" >> }, {},
         {}, { "a", "b", "c", "d" }, {})

\* A target that provides into a provides cycle of two other targets.
ProvidesLoop ==
    Decl({ "a", "b", "c" }, {},
         { << "a", "b" >>, << "b", "c" >>, << "c", "b" >> },
         {}, { "a", "b", "c" }, {})

\* A target that depends on two essentials.
MultipleEssentials ==
    Decl({ "a", "b", "c" }, { << "a", "b" >>, << "a", "c" >> }, {},
         {}, { "a", "b", "c" }, { "b", "c" })

\* A build file with the special targets "default" and "any".
DefaultAny ==
    Decl({ "a", "any", "b", "default" },
         { << "default", "a" >>, << "any", "b" >> }, {},
         {}, { "a", "b" }, {})

\* A chain of ten targets, each depending on the next.
LongChain ==
    Decl({ "a", "b", "c", "d", "art", "src", "lib_a", "lib_b", "plat_a", "plat_b" },
         { << "a", "b" >>, << "b", "c" >>, << "c", "d" >>, << "d", "art" >>,
           << "art", "src" >>, << "src", "lib_a" >>, << "lib_a", "lib_b" >>,
           << "lib_b", "plat_a" >>, << "plat_a", "plat_b" >> }, {},
         {}, { "a", "b", "c", "d", "art", "src", "lib_a", "lib_b", "plat_a", "plat_b" }, {})

Scenarios ==
    { << LongChain, { "a" } >>,
      << Linear, { "a" } >>, << Diamond, { "a" } >>,
      << AbstractCover, { "user" } >>, << Ambiguous, { "user" } >>,
      << AmbiguousTransitive, { "user" } >>, << Cycle, { "a" } >>,
      << ProvidesLoop, { "a" } >>, << MultipleEssentials, { "a" } >>,
      << EssentialSelection, { "user" } >>, << EssentialFamily, { "user" } >>,
      << EssentialFamily, { "user", "plat_a" } >>,
      << DefaultAny, {} >>, << DefaultAny, { "a" } >> }

\* ------------------------------------------------------------------------
\* yamake.py : class Target
\* ------------------------------------------------------------------------
\* Target.IsAbstract (no target of the model declares layers)
IsAbstract(t) == ~ (t \in exists \/ t \in actions)

\* Target.Depends / Target.Provides
Depends(t) == depends[t]
Provides(t) == provides[t]

\* chain.from_iterable([t.depends for t in S if t.depends])
DependsOf(S) == UNION { depends[t] : t \in S }
ProvidesOf(S) == UNION { provides[t] : t \in S }

\* ------------------------------------------------------------------------
\* yamake.py : Builder.Initialize
\* ------------------------------------------------------------------------
\* Target.finalizeInit: builder.index[i] for every declared name.
UnknownNames == (DependsOf(targets) \cup ProvidesOf(targets)) \ targets

CyclicCounterLimit == 10

\* A walk that looks at the direct depends only.
DependsWalkShallow(t, lDepends, counter, first) ==
    IF t \in lDepends THEN "CYCLIC DEPENDENCY" ELSE "ok"

\* The depends walk of one target (the frontier loop); `first` tells the
\* first pass, in which lastDepends is the set t.depends and never equals
\* the list built from it.
RECURSIVE DependsWalk(_, _, _, _)
DependsWalk(t, lDepends, counter, first) ==
    IF lDepends = {} THEN "ok"
    ELSE IF t \in lDepends THEN "CYCLIC DEPENDENCY"
    ELSE LET next == DependsOf(lDepends)
         IN  IF counter + 1 >= CyclicCounterLimit \/ (~ first /\ next = lDepends)
             THEN "CYCLIC DEPENDENCY"
             ELSE DependsWalk(t, next, counter + 1, FALSE)

\* The provides walk of one target. It has no counter: a frontier that
\* comes back without two equal consecutive frontiers never ends ("hang").
RECURSIVE ProvidesWalk(_, _, _, _)
ProvidesWalk(t, lProvides, first, seen) ==
    IF lProvides = {} THEN "ok"
    ELSE IF t \in lProvides THEN "CYCLIC PROVIDE"
    ELSE LET next == ProvidesOf(lProvides)
         IN  IF ~ first /\ next = lProvides THEN "CYCLIC PROVIDE"
             ELSE IF next \in seen THEN "hang"
             ELSE ProvidesWalk(t, next, FALSE, seen \cup { lProvides })

CheckTarget(t) ==
    LET d == DependsWalk(t, depends[t], 1, TRUE)
    IN  IF d # "ok" THEN d ELSE ProvidesWalk(t, provides[t], TRUE, {})

\* The loop over self.lTargets, in declaration order (taken to be name
\* order): the first target whose walk fails ends Initialize.
RECURSIVE CheckTargets(_)
CheckTargets(ls) ==
    IF ls = << >> THEN "ok"
    ELSE LET c == CheckTarget(Head(ls))
         IN  IF c # "ok" THEN c ELSE CheckTargets(Tail(ls))

\* dProviders[t] : the targets that list t in their provides.
DirectProviders(t) == { p \in targets : t \in provides[p] }

\* The direct providers alone, with no closure.
FullProvidersDirect(lNewSet) == lNewSet

\* dFullProviders[t] : the closure of dProviders from t.
RECURSIVE FullProvidersFrom(_)
FullProvidersFrom(lNewSet) ==
    LET lP == UNION { DirectProviders(p) : p \in lNewSet } \ lNewSet
    IN  IF lP = {} THEN lNewSet ELSE FullProvidersFrom(lNewSet \cup lP)

\* The dictionary Initialize returns: a plain mapping whose keys are the
\* targets that have a provider.
FullProviders ==
    [ t \in { u \in AllNames : DirectProviders(u) # {} } |->
        FullProvidersFrom(DirectProviders(t)) ]

\* self.lEssentials
BuilderEssentials == { t \in targets : t \in essential }

\* No extension hook was called.
NoHook == [ name |-> "none", ok |-> TRUE, queue |-> << >> ]

\* No build file was written from a JSON output.
NoDocument == [ written |-> FALSE ]

NoEnq ==
    [ lTargets |-> {}, lQueueSet |-> {}, lProvides |-> {}, lDepends |-> {},
      lAbstracts |-> {}, lFullProvides |-> {}, lD |-> {}, lP |-> {},
      lEssentials |-> {}, lChosenEssentials |-> {}, lExcludedEssentials |-> {},
      counter |-> 0 ]

Initialize ==
    /\ pc = "start"
    /\ LET c == IF UnknownNames # {} THEN "KeyError" ELSE CheckTargets(SortByName(targets))
       IN  IF c = "ok"
           THEN /\ pc' = "initialized"
                /\ dProviders' = FullProviders
                /\ err' = "none"
           ELSE /\ pc' = IF c = "hang" THEN "hang" ELSE "error"
                /\ err' = c
                /\ UNCHANGED dProviders
    /\ UNCHANGED << declVars, args, runVars, document, hook, enq, lOrdered, lOutput, result >>

\* ------------------------------------------------------------------------
\* yamake.py : Builder.Enqueue
\* ------------------------------------------------------------------------
\* BuildCLI: lTargets = [builder.index[i] for i in args if i in builder.index],
\* or default.depends when no name is given; None is the empty set here.
DefaultDepends == IF "default" \in targets THEN depends["default"] ELSE {}

CLITargets == IF args # {} THEN args \cap targets ELSE DefaultDepends

\* Enqueue, first lines: an empty request falls back to default.depends.
RequestedTargets == IF CLITargets # {} THEN CLITargets ELSE DefaultDepends

AnyDepends == IF "any" \in targets THEN depends["any"] ELSE {}

EnqueueCounter == 5

\* The locals of Enqueue when its main loop is first reached.
EnqueueLocals(dP) ==
    LET lTargetSet == RequestedTargets \cup AnyDepends
        lEssentials == UNION { dP[e] : e \in BuilderEssentials }
        lProvides == ProvidesOf(lTargetSet)
        lDepends0 == DependsOf(lTargetSet)
        lAbstracts == { t \in lTargetSet \cup lDepends0 : IsAbstract(t) }
        lDepends == lDepends0 \cup lAbstracts
        lQueueSet == lTargetSet \ lAbstracts
        lFullProvides == lQueueSet \cup lProvides
        lChosen0 == lFullProvides \cap lEssentials
        lChosenEssentials == lChosen0 \cup (BuilderEssentials \cap ProvidesOf(lChosen0))
    IN  [ lTargets |-> RequestedTargets,
          lQueueSet |-> lQueueSet,
          lProvides |-> lProvides,
          lDepends |-> lDepends,
          lAbstracts |-> lAbstracts,
          lFullProvides |-> lFullProvides,
          lD |-> DependsOf(lDepends),
          lP |-> ProvidesOf(lProvides),
          lEssentials |-> lEssentials,
          lChosenEssentials |-> lChosenEssentials,
          lExcludedEssentials |-> lEssentials \ lChosenEssentials,
          counter |-> EnqueueCounter ]

\* while lDepends or (lP and lP != lProvides) or (lD and lD != lDepends)
LoopCondition(q) ==
    \/ q.lDepends # {}
    \/ (q.lP # {} /\ q.lP # q.lProvides)
    \/ (q.lD # {} /\ q.lD # q.lDepends)

\* while lP and lP != lProvides: the provides frontier
RECURSIVE ExpandProvides(_)
ExpandProvides(q) ==
    IF q.lP # {} /\ q.lP # q.lProvides
    THEN LET lProvides == q.lProvides \cup q.lP
             lFullProvides == q.lQueueSet \cup lProvides
         IN  ExpandProvides([ q EXCEPT !.lProvides = lProvides,
                                       !.lFullProvides = lFullProvides,
                                       !.lP = ProvidesOf(lFullProvides) \ lProvides ])
    ELSE q

\* while lD and lD != lDepends: the depends frontier
RECURSIVE ExpandDepends(_)
ExpandDepends(q) ==
    IF q.lD # {} /\ q.lD # q.lDepends
    THEN LET lDepends == q.lDepends \cup q.lD
         IN  ExpandDepends([ q EXCEPT !.lDepends = lDepends,
                                      !.lD = DependsOf(lDepends) \ lDepends ])
    ELSE q

\* The candidates lPP first collected for one element of lDepends.
Candidates(depend, q, dP) ==
    IF IsAbstract(depend)
    THEN LET own == IF depends[depend] # {} /\ Depends(depend) \subseteq q.lFullProvides
                    THEN { depend } ELSE {}
             given == IF depend \in DOMAIN dP
                      THEN { t \in dP[depend] :
                               depends[t] = {} \/ Depends(t) \cap q.lChosenEssentials # {} }
                      ELSE {}
             lPP == own \cup given
         IN  IF Cardinality(lPP) > 1 /\ q.lEssentials \cap lPP # {}
             THEN lPP \ (q.lExcludedEssentials \cup q.lAbstracts)
             ELSE lPP
    ELSE IF depend \notin q.lFullProvides THEN { depend } ELSE {}

\* What the body of "for depend in lDepends" adds to lAddToQueue.
Disambiguate(depend, q, dP) ==
    LET lPP == Candidates(depend, q, dP)
        lPP1 == IF Cardinality(lPP) # 1
                THEN { t \in lPP : depends[t] # {} /\ Depends(t) \cap q.lFullProvides # {} }
                ELSE lPP
        lPP2 == IF Cardinality(lPP1) # 1
                THEN { t \in lPP1 : depends[t] # {} /\ Depends(t) \cap q.lQueueSet # {} }
                ELSE lPP1
    IN  IF lPP = {} THEN {}
        ELSE IF Cardinality(lPP \cap q.lProvides) = 1 THEN lPP \cap q.lProvides
        ELSE IF Cardinality(lPP2) = 1 THEN lPP2
        ELSE {}

\* abstract targets with depends, all of them covered
CoveredAbstracts(lDepends, lFullProvides) ==
    { t \in lDepends :
        IsAbstract(t) /\ depends[t] # {} /\ Depends(t) \subseteq lFullProvides }

\* "if lAddToQueue:" and its else branch
Commit(q, lAddToQueue) ==
    IF lAddToQueue # {}
    THEN LET lQueueSet0 == q.lQueueSet \cup lAddToQueue
             lAbstracts == { t \in lQueueSet0 \cup q.lDepends : IsAbstract(t) }
             lQueueSet == lQueueSet0 \ lAbstracts
             lFullProvides == q.lFullProvides \cup lQueueSet
             lDepends0 == q.lDepends \cup (lAbstracts \ lFullProvides)
             lDepends == IF lFullProvides # {}
                         THEN lDepends0 \ CoveredAbstracts(lDepends0, lFullProvides)
                         ELSE lDepends0
         IN  [ q EXCEPT !.lQueueSet = lQueueSet, !.lAbstracts = lAbstracts,
                        !.lFullProvides = lFullProvides, !.lDepends = lDepends ]
    ELSE [ q EXCEPT !.counter = 0 ]

\* The last lines of the loop body, from "lFullProvides |= lQueueSet | lProvides".
Refresh(q) ==
    LET lFullProvides == q.lFullProvides \cup q.lQueueSet \cup q.lProvides
        lAbstracts == { t \in lFullProvides \cup q.lDepends : IsAbstract(t) }
        lDepends == q.lDepends \ (lFullProvides \cup q.lQueueSet)
        lP == (q.lP \cup ProvidesOf(q.lQueueSet)) \ lFullProvides
        lD == ((q.lD \cup DependsOf(q.lQueueSet)) \ lDepends) \ lFullProvides
    IN  [ q EXCEPT !.lFullProvides = lFullProvides, !.lAbstracts = lAbstracts,
                   !.lDepends = lDepends, !.lP = lP, !.lD = lD,
                   !.counter = q.counter - 1 ]

\* One pass of the main loop of Enqueue.
EnqueuePass(q, dP) ==
    LET q1 == ExpandProvides(q)
        q2 == [ q1 EXCEPT !.lDepends = q1.lDepends \ q1.lFullProvides ]
        q3 == ExpandDepends(q2)
        q4 == [ q3 EXCEPT !.lFullProvides = q3.lQueueSet \cup q3.lProvides ]
        found == UNION { Disambiguate(d, q4, dP) : d \in q4.lDepends }
        ready == { t \in q4.lDepends :
                     /\ ~ IsAbstract(t)
                     /\ t \notin q4.lFullProvides
                     /\ Depends(t) \subseteq q4.lFullProvides }
    IN  Refresh(Commit(q4, found \cup ready))

EnqueueBegin ==
    /\ pc = "initialized"
    /\ IF RequestedTargets = {}
       THEN \* return False, lOutput : lOutput is not defined
            /\ pc' = "error"
            /\ err' = "NameError"
            /\ UNCHANGED enq
       ELSE IF ~ (BuilderEssentials \subseteq DOMAIN dProviders)
       THEN \* dProviders[essential] on the plain dictionary
            /\ pc' = "error"
            /\ err' = "KeyError"
            /\ UNCHANGED enq
       ELSE /\ enq' = EnqueueLocals(dProviders)
            /\ pc' = IF LoopCondition(enq') THEN "loop" ELSE "endloop"
            /\ UNCHANGED err
    /\ UNCHANGED << declVars, args, runVars, document, hook, dProviders, lOrdered, lOutput, result >>

EnqueueIterate ==
    /\ pc = "loop"
    /\ enq' = EnqueuePass(enq, dProviders)
    /\ pc' = IF enq'.counter <= 0 \/ ~ LoopCondition(enq') THEN "endloop" ELSE "loop"
    /\ UNCHANGED << declVars, args, runVars, document, hook, dProviders, err, lOrdered, lOutput,
                    result >>

EnqueueReturn ==
    /\ pc = "endloop"
    /\ enq' = [ enq EXCEPT !.lDepends =
                  enq.lDepends \ CoveredAbstracts(enq.lDepends, enq.lFullProvides) ]
    /\ pc' = "enqueued"
    /\ UNCHANGED << declVars, args, runVars, document, hook, dProviders, err, lOrdered, lOutput,
                    result >>

\* ------------------------------------------------------------------------
\* yamake.py : Builder.OrderByDepends and the end of BuildCLI
\* ------------------------------------------------------------------------
OrderCount == 10

\* while lP and lP != lProvides (inside the loop of OrderByDepends)
RECURSIVE OrderProvides(_)
OrderProvides(o) ==
    IF o.lP # {} /\ o.lP # o.lProvides
    THEN LET lProvides == o.lProvides \cup o.lP
         IN  OrderProvides([ o EXCEPT !.lProvides = lProvides,
                                      !.lP = ProvidesOf(lProvides) \ lProvides,
                                      !.lDepends = o.lDepends \ lProvides,
                                      !.lD = o.lD \ lProvides ])
    ELSE o

\* while lD and lD != lDepends (inside the loop of OrderByDepends)
RECURSIVE OrderDepends(_)
OrderDepends(o) ==
    IF o.lD # {} /\ o.lD # o.lDepends
    THEN LET lDepends == o.lDepends \cup o.lD
         IN  OrderDepends([ o EXCEPT !.lDepends = lDepends,
                                     !.lD = (DependsOf(lDepends) \ lDepends) \ o.lProvides ])
    ELSE o

\* The next layer: the targets of lDepends that are ready, in name order.
ReadyLayer(o, lQueueSet) ==
    { t \in o.lDepends : depends[t] = {} \/ Depends(t) \subseteq o.lProvides } \cap lQueueSet

\* while lDepends or lD or lP, at most OrderCount passes
RECURSIVE OrderLoop(_, _)
OrderLoop(o, lQueueSet) ==
    IF o.lDepends # {} \/ o.lD # {} \/ o.lP # {}
    THEN LET o1 == OrderProvides(o)
             l == ReadyLayer(o1, lQueueSet)
             o2 == IF l # {}
                   THEN [ o1 EXCEPT !.lDepths = Append(o1.lDepths, SortByName(l)),
                                    !.lDepends = o1.lDepends \ l,
                                    !.lProvides = o1.lProvides \cup l ]
                   ELSE o1
             o3 == OrderDepends(o2)
             o4 == [ o3 EXCEPT !.lP = (o3.lP \cup ProvidesOf(o3.lProvides)) \ o3.lProvides,
                               !.count = o3.count - 1 ]
         IN  IF o4.count = 0 THEN o4 ELSE OrderLoop(o4, lQueueSet)
    ELSE o

\* [t for t in chain.from_iterable(lDepths) if not t.IsAbstract()]
DropAbstract(s) == SelectSeq(s, LAMBDA t : ~ IsAbstract(t))

\* OrderByDepends, given the listings first0 and first1 of its first two
\* layers (list(set(...)): any order).
OrderByDepends(lQueueSet, lEssentials, first0, first1) ==
    LET lProvides0 == lQueueSet \cap lEssentials
        lProvides == lProvides0 \cup ProvidesOf(lProvides0)
        lDepends == lQueueSet \ lProvides
        o == OrderLoop([ lDepths |-> << first0, first1 >>,
                         lProvides |-> lProvides,
                         lDepends |-> lDepends,
                         lD |-> DependsOf(lDepends),
                         lP |-> {},
                         count |-> OrderCount ], lQueueSet)
    IN  DropAbstract(Flatten(o.lDepths))

EssentialsNoDepends(lQueueSet, lEssentials) ==
    { t \in lQueueSet \cap lEssentials : depends[t] = {} }

EssentialsWithDepends(lQueueSet, lEssentials) ==
    { t \in lQueueSet \cap lEssentials : depends[t] # {} }

\* BuildCLI: "if len(lAmbiguous): ... return False, lOutput"
ReportAmbiguous ==
    /\ pc = "enqueued"
    /\ enq.lDepends # {}
    /\ lOutput' = [ t \in enq.lDepends |->
                       IF t \in DOMAIN dProviders THEN dProviders[t] ELSE {} ]
    /\ pc' = "done"
    /\ result' = FALSE
    /\ UNCHANGED << declVars, args, runVars, document, hook, dProviders, enq, err, lOrdered >>

\* BuildCLI: lOrdered = builder.OrderByDepends(...); return True, lOutput
Order ==
    /\ pc = "enqueued"
    /\ enq.lDepends = {}
    /\ \E first0 \in Perms(EssentialsNoDepends(enq.lQueueSet, enq.lEssentials)),
          first1 \in Perms(EssentialsWithDepends(enq.lQueueSet, enq.lEssentials)) :
          lOrdered' = OrderByDepends(enq.lQueueSet, enq.lEssentials, first0, first1)
    /\ pc' = "done"
    /\ result' = TRUE
    /\ UNCHANGED << declVars, args, runVars, document, hook, dProviders, enq, err, lOutput >>

\* ------------------------------------------------------------------------
\* BuildCLI on a declaration file and a request
\* ------------------------------------------------------------------------
GenRequests == KSubsets(GenNames, 1)

InitDecl(d) ==
    /\ targets = d.targets
    /\ depends = d.depends
    /\ provides = d.provides
    /\ exists = d.exists
    /\ actions = d.actions
    /\ essential = d.essential
    /\ target_name = [ t \in AllNames |-> t ]

NoFiles == [ t \in AllNames |-> 0 ]

NoRun ==
    [ runs |-> 0, ordered_targets |-> << >>, result |-> FALSE, fs |-> NoFiles,
      messages |-> << >> ]

\* The state of run_targets before its first call.
InitRun ==
    /\ fs \in [ AllNames -> {0} ]
    /\ mtime = NoFiles
    /\ clean_mode = FALSE
    /\ dry_run = FALSE
    /\ targets_to_build = {}
    /\ ordered_targets = << >>
    /\ position = 0
    /\ messages = << >>
    /\ invoked = << >>
    /\ returned = << >>
    /\ previous = NoRun

InitCLI ==
    /\ \/ \E d \in GenDecls, r \in GenRequests : InitDecl(d) /\ args = r
       \/ \E s \in Scenarios : InitDecl(s[1]) /\ args = s[2]
    /\ cleans = {}
    /\ check_mtime = {}
    /\ index_essentials = {}
    /\ default_targets = {}
    /\ is_default = {}
    /\ pc = "start"
    /\ err = "none"
    /\ result = FALSE
    /\ dProviders = << >>
    /\ enq = NoEnq
    /\ lOrdered = << >>
    /\ lOutput = << >>
    /\ document = NoDocument
    /\ hook = NoHook
    /\ InitRun

NextCLI ==
    \/ Initialize
    \/ EnqueueBegin
    \/ EnqueueIterate
    \/ EnqueueReturn
    \/ ReportAmbiguous
    \/ Order

SpecCLI == InitCLI /\ [][NextCLI]_vars

\* ------------------------------------------------------------------------
\* yamake_builder.py : Builder.Enqueue
\* ------------------------------------------------------------------------
\* self.lEssentials is never filled, so the essential flag changes nothing.
BuilderCounter == 10

\* Initialize of yamake_builder.py: the checks of yamake.py, but the module
\* never imports sys, so each "raise SyntaxError(...).with_traceback(
\* sys.exc_info()[2])" ends in a NameError.
BuilderInitialize ==
    /\ pc = "start"
    /\ LET c == IF UnknownNames # {} THEN "KeyError" ELSE CheckTargets(SortByName(targets))
       IN  IF c = "ok"
           THEN /\ pc' = "initialized"
                /\ dProviders' = FullProviders
                /\ err' = "none"
           ELSE /\ pc' = IF c = "hang" THEN "hang" ELSE "error"
                /\ err' = IF c \in { "KeyError", "hang" } THEN c ELSE "NameError"
                /\ UNCHANGED dProviders
    /\ UNCHANGED << declVars, args, runVars, document, hook, enq, lOrdered, lOutput, result >>

\* The locals of Enqueue when its main loop is first reached.
BuilderEnqueueLocals ==
    LET lTargetSet == RequestedTargets \cup AnyDepends
        lProvides == ProvidesOf(lTargetSet)
        lDepends0 == DependsOf(lTargetSet)
        lAbstracts == { t \in lTargetSet \cup lDepends0 : IsAbstract(t) }
        lDepends == lDepends0 \cup lAbstracts
        lQueueSet == lTargetSet \ lAbstracts
    IN  [ lQueueSet |-> lQueueSet,
          lProvides |-> lProvides,
          lDepends |-> lDepends,
          lAbstracts |-> lAbstracts,
          lFullProvides |-> lQueueSet \cup lProvides,
          lD |-> DependsOf(lDepends),
          lP |-> ProvidesOf(lProvides),
          counter |-> BuilderCounter,
          lAbstractDepends |-> {},
          lTestSets |-> << >>,
          ranked |-> << >>,
          target |-> << >>,
          depend |-> "None",
          before |-> << >> ]

\* while lP and lP != lProvides, with the provides of the targets of
\* lFullProvides that have a dependency in lFullProvides
RECURSIVE BuilderExpandProvides(_)
BuilderExpandProvides(q) ==
    IF q.lP # {} /\ q.lP # q.lProvides
    THEN LET lProvides == q.lProvides \cup q.lP
             lFullProvides == q.lQueueSet \cup lProvides
             lP == ProvidesOf({ t \in lFullProvides \cap targets :
                                  provides[t] # {} /\ Depends(t) \cap lFullProvides # {} })
         IN  BuilderExpandProvides([ q EXCEPT !.lProvides = lProvides,
                                              !.lFullProvides = lFullProvides,
                                              !.lP = lP \ lProvides ])
    ELSE q

\* [d for d in lAbstractDepends if d in dProviders]
Considered(q, dP) == { d \in q.lDepends : IsAbstract(d) /\ d \in DOMAIN dP }

\* lTestSets for one abstract dependency
lTestSets(depend, q, dP) ==
    LET lPP == dP[depend]
        lAbstractDepends == { t \in q.lDepends : IsAbstract(t) }
    IN  << lPP \cap q.lQueueSet,
           lPP \cap ((q.lProvides \cup q.lQueueSet) \ q.lAbstracts),
           lPP,
           lPP \ q.lFullProvides,
           lPP \ lAbstractDepends,
           lPP \ q.lAbstracts,
           lPP \ (q.lAbstracts \cup q.lFullProvides) >>

\* The scan that takes the element of the first set that holds anything.
RECURSIVE RankedChoiceNonEmpty(_)
RankedChoiceNonEmpty(testSets) ==
    IF testSets = << >> THEN {}
    ELSE IF Head(testSets) # {} THEN { CHOOSE x \in Head(testSets) : TRUE }
    ELSE RankedChoiceNonEmpty(Tail(testSets))

\* for testSet in lTestSets: if len(testSet) == 1: target = ...; break
\* The target as a set: empty for None.
RECURSIVE RankedChoice(_)
RankedChoice(testSets) ==
    IF testSets = << >> THEN {}
    ELSE IF Cardinality(Head(testSets)) = 1 THEN Head(testSets)
    ELSE RankedChoice(Tail(testSets))

\* "if not target: for pp in lPP": the candidates the second search can
\* stop at, whichever comes first in the iteration of the set.
TryHarder(depend, q, dP) ==
    { pp \in dP[depend] :
        LET ppDepends == Depends(pp)
            ppNonAbstractDepends == { t \in ppDepends : ~ IsAbstract(t) }
        IN  \/ ppNonAbstractDepends \cap q.lQueueSet # {}
            \/ ppNonAbstractDepends \cap q.lFullProvides # {}
            \/ ppDepends \cap q.lQueueSet # {}
            \/ ppDepends \cap q.lFullProvides # {} }

\* The values target can have at the end of the body for one dependency.
Targets(depend, q, dP) ==
    LET ranked == RankedChoice(lTestSets(depend, q, dP))
    IN  IF ranked # {} THEN { ranked }
        ELSE IF TryHarder(depend, q, dP) = {} THEN { {} }
        ELSE { { pp } : pp \in TryHarder(depend, q, dP) }

\* "if lFoundTargets: if len(lFoundTargets) == 1:", with depend the last
\* dependency the loop looked at.
Found(q, target, depend) ==
    LET lFoundTargets == UNION { target[d] : d \in DOMAIN target }
    IN  IF Cardinality(lFoundTargets) = 1
        THEN [ q EXCEPT !.lProvides = q.lProvides \cup { depend },
                        !.lFullProvides = q.lFullProvides \cup { depend },
                        !.lDepends = q.lDepends \ { depend } ]
        ELSE q

\* The loop body without "counter -= 1".
BuilderCommitUncounted(q, lFound) ==
    LET lAddToQueue == lFound \cup
                       { t \in q.lDepends : ~ IsAbstract(t) /\ Depends(t) \subseteq q.lFullProvides }
        lQueueSet0 == q.lQueueSet \cup lAddToQueue
        lAbstracts0 == { t \in lQueueSet0 \cup q.lDepends : IsAbstract(t) }
        q1 == IF lAddToQueue # {}
              THEN [ q EXCEPT !.lQueueSet = lQueueSet0 \ lAbstracts0,
                              !.lAbstracts = lAbstracts0,
                              !.lDepends = q.lDepends \cup lAbstracts0,
                              !.lFullProvides = q.lFullProvides \cup (lQueueSet0 \ lAbstracts0) ]
              ELSE q
        lFullProvides == q1.lFullProvides \cup q1.lQueueSet \cup q1.lProvides
        lDepends == q1.lDepends \ (lFullProvides \cup q1.lQueueSet)
    IN  [ q1 EXCEPT !.lFullProvides = lFullProvides,
                    !.lAbstracts = { t \in lFullProvides \cup q1.lDepends : IsAbstract(t) },
                    !.lDepends = lDepends,
                    !.lP = (q1.lP \cup ProvidesOf(q1.lQueueSet)) \ lFullProvides,
                    !.lD = ((q1.lD \cup DependsOf(q1.lQueueSet)) \ lDepends) \ lFullProvides ]

\* From "lAddToQueue |= ..." to the end of the loop body.
BuilderCommit(q, lFound) ==
    LET lAddToQueue == lFound \cup
                       { t \in q.lDepends : ~ IsAbstract(t) /\ Depends(t) \subseteq q.lFullProvides }
        lQueueSet0 == q.lQueueSet \cup lAddToQueue
        lAbstracts0 == { t \in lQueueSet0 \cup q.lDepends : IsAbstract(t) }
        q1 == IF lAddToQueue # {}
              THEN [ q EXCEPT !.lQueueSet = lQueueSet0 \ lAbstracts0,
                              !.lAbstracts = lAbstracts0,
                              !.lDepends = q.lDepends \cup lAbstracts0,
                              !.lFullProvides = q.lFullProvides \cup (lQueueSet0 \ lAbstracts0) ]
              ELSE q
        lFullProvides == q1.lFullProvides \cup q1.lQueueSet \cup q1.lProvides
        lDepends == q1.lDepends \ (lFullProvides \cup q1.lQueueSet)
    IN  [ q1 EXCEPT !.lFullProvides = lFullProvides,
                    !.lAbstracts = { t \in lFullProvides \cup q1.lDepends : IsAbstract(t) },
                    !.lDepends = lDepends,
                    !.lP = (q1.lP \cup ProvidesOf(q1.lQueueSet)) \ lFullProvides,
                    !.lD = ((q1.lD \cup DependsOf(q1.lQueueSet)) \ lDepends) \ lFullProvides,
                    !.counter = q1.counter - 1 ]

\* The records one pass of the main loop can end with: one for each order
\* in which the sets are iterated.
BuilderPass(q, dP) ==
    LET q1 == BuilderExpandProvides(q)
        q2 == [ q1 EXCEPT !.lDepends = q1.lDepends \ q1.lFullProvides ]
        q3 == ExpandDepends(q2)
        q4 == [ q3 EXCEPT !.lFullProvides = q3.lQueueSet \cup q3.lProvides ]
        D == Considered(q4, dP)
        q5 == [ q4 EXCEPT !.lAbstractDepends = { t \in q4.lDepends : IsAbstract(t) },
                          !.lTestSets = [ d \in D |-> lTestSets(d, q4, dP) ],
                          !.ranked = [ d \in D |-> RankedChoice(lTestSets(d, q4, dP)) ],
                          !.before = [ lQueueSet |-> q4.lQueueSet,
                                       lProvides |-> q4.lProvides,
                                       lFullProvides |-> q4.lFullProvides,
                                       lAbstracts |-> q4.lAbstracts ] ]
    IN  IF D = {}
        THEN { BuilderCommit([ q5 EXCEPT !.target = << >>, !.depend = "None" ], {}) }
        ELSE { BuilderCommit(Found([ q5 EXCEPT !.target = target, !.depend = depend ],
                                   target, depend),
                             IF Cardinality(UNION { target[d] : d \in D }) = 1
                             THEN UNION { target[d] : d \in D } ELSE {}) :
                 target \in { f \in [ D -> { {} } \cup { { x } : x \in targets } ] :
                                \A d \in D : f[d] \in Targets(d, q4, dP) },
                 depend \in D }

BuilderEnqueueBegin ==
    /\ pc = "initialized"
    /\ IF RequestedTargets = {}
       THEN \* return False, lOutput : lOutput is not defined
            /\ pc' = "error"
            /\ err' = "NameError"
            /\ UNCHANGED enq
       ELSE /\ enq' = BuilderEnqueueLocals
            /\ pc' = IF LoopCondition(enq') THEN "loop" ELSE "enqueued"
            /\ UNCHANGED err
    /\ UNCHANGED << declVars, args, runVars, document, hook, dProviders, lOrdered, lOutput,
                    result >>

\* One pass of the main loop; Enqueue returns True, lQueueSet, lDepends
\* when the loop is over.
BuilderEnqueueIterate ==
    /\ pc = "loop"
    /\ enq' \in BuilderPass(enq, dProviders)
    /\ pc' = IF enq'.counter <= 0 \/ ~ LoopCondition(enq') THEN "enqueued" ELSE "loop"
    /\ result' = (pc' = "enqueued")
    /\ UNCHANGED << declVars, args, runVars, document, hook, dProviders, err, lOrdered,
                    lOutput >>

\* Two abstract dependencies, each with its one provider.
TwoAbstracts ==
    Decl({ "feat", "impl1", "plat", "plat_a", "user" },
         { << "user", "feat" >>, << "user", "plat" >> },
         { << "impl1", "feat" >>, << "plat_a", "plat" >> },
         {}, { "impl1", "plat_a", "user" }, {})

\* Two providers of one abstract dependency, one of them built on a library
\* that the request needs as well.
ProviderOnLibrary ==
    Decl({ "feat", "impl1", "impl2", "lib_a", "user" },
         { << "user", "feat" >>, << "user", "lib_a" >>, << "impl1", "lib_a" >> },
         { << "impl1", "feat" >>, << "impl2", "feat" >> },
         {}, { "impl1", "impl2", "lib_a", "user" }, {})

\* Two abstract dependencies with one provider of both.
SharedProvider ==
    Decl({ "feat", "impl1", "plat", "user" },
         { << "user", "feat" >>, << "user", "plat" >> },
         { << "impl1", "feat" >>, << "impl1", "plat" >> },
         {}, { "impl1", "user" }, {})

\* An abstract dependency with a concrete provider and an abstract one that
\* the request depends on as well.
AbstractProvider ==
    Decl({ "feat", "impl1", "plat", "user" },
         { << "user", "feat" >>, << "user", "plat" >> },
         { << "impl1", "feat" >>, << "plat", "feat" >> },
         {}, { "impl1", "user" }, {})

BuilderScenarios ==
    Scenarios \cup { << TwoAbstracts, { "user" } >>, << ProviderOnLibrary, { "user" } >>,
                     << SharedProvider, { "user" } >>, << AbstractProvider, { "user" } >> }

InitBuilder ==
    /\ \/ \E d \in GenDecls, r \in GenRequests : InitDecl(d) /\ args = r
       \/ \E s \in BuilderScenarios : InitDecl(s[1]) /\ args = s[2]
    /\ cleans = {}
    /\ check_mtime = {}
    /\ index_essentials = {}
    /\ default_targets = {}
    /\ is_default = {}
    /\ pc = "start"
    /\ err = "none"
    /\ result = FALSE
    /\ dProviders = << >>
    /\ enq = NoEnq
    /\ lOrdered = << >>
    /\ lOutput = << >>
    /\ document = NoDocument
    /\ hook = NoHook
    /\ InitRun

NextBuilder ==
    \/ BuilderInitialize
    \/ BuilderEnqueueBegin
    \/ BuilderEnqueueIterate

SpecBuilder == InitBuilder /\ [][NextBuilder]_vars

\* ------------------------------------------------------------------------
\* yamake.py : Builder.JSONOutput and the way back through Initialize
\* ------------------------------------------------------------------------
\* The keys of target.__dict__ that the model holds ("name" apart).
FieldKeys ==
    { "exists", "essential", "depends", "provides", "actions", "clean", "check_mtime" }

\* lSaved of JSONOutput
lSaved ==
    { "target", "layers", "depends", "provides", "clean", "actions", "essential",
      "check_mtime" }

\* The keys of target.__dict__ whose value is truthy.
Truthy(t) ==
    { k \in FieldKeys :
        CASE k = "exists" -> t \in exists
          [] k = "essential" -> t \in essential
          [] k = "depends" -> depends[t] # {}
          [] k = "provides" -> provides[t] # {}
          [] k = "actions" -> t \in actions
          [] k = "clean" -> t \in cleans
          [] k = "check_mtime" -> t \in check_mtime }

\* d = {k: v for (k, v) in target.__dict__.items() if k in lSaved and v}
\* json.dumps writes the value of a kept key as it is, so d is held as the
\* set of its keys.
SavedDict(t) == Truthy(t) \cap lSaved

\* Builder.JSONOutput: the lines between "{" and "}", one for each target
\* of lTargets; after finalizeInit depends and provides are sets of Target
\* objects, which json.dumps refuses.
NotSerializable(lTargets) ==
    \E i \in 1..Len(lTargets) : SavedDict(lTargets[i]) \cap { "depends", "provides" } # {}

JSONOutput(lTargets) ==
    IF NotSerializable(lTargets)
    THEN "TypeError"
    ELSE [ i \in 1..Len(lTargets) |-> [ name |-> lTargets[i], d |-> SavedDict(lTargets[i]) ] ]

\* The declarations read from the joined lines: the lines of the targets are
\* not separated by commas, so two or more of them are not a document.
NotDelimited(lines) == Len(lines) > 1

LoadOutput(lines) ==
    IF NotDelimited(lines)
    THEN "ParserError"
    ELSE LET T == { lines[i].name : i \in 1..Len(lines) }
             Has(k) == { lines[i].name : i \in { j \in 1..Len(lines) : k \in lines[j].d } }
         IN  [ targets |-> T,
               depends |-> [ t \in AllNames |-> {} ],
               provides |-> [ t \in AllNames |-> {} ],
               exists |-> Has("exists"),
               actions |-> Has("actions"),
               essential |-> Has("essential"),
               cleans |-> Has("clean"),
               check_mtime |-> Has("check_mtime") ]

\* BuildCLI with options.json_output: JSONOutput is called on the new
\* Builder, before any build file is read.
JSONOutputCLI ==
    /\ pc = "start"
    /\ ~ document.written
    /\ lOutput' = JSONOutput(<< >>)
    /\ result' = TRUE
    /\ pc' = "done"
    /\ UNCHANGED << declVars, args, runVars, dProviders, enq, err, lOrdered, document,
                    hook >>

\* builder.JSONOutput() on the graph that Initialize loaded
Serialize ==
    /\ pc = "initialized"
    /\ LET out == JSONOutput(SortByName(targets))
       IN  IF NotSerializable(SortByName(targets))
           THEN /\ pc' = "error"
                /\ err' = "TypeError"
                /\ UNCHANGED lOutput
           ELSE /\ pc' = "serialized"
                /\ lOutput' = out
                /\ UNCHANGED err
    /\ UNCHANGED << declVars, args, runVars, dProviders, enq, lOrdered, result, document,
                    hook >>

\* The output becomes the build file of a new Builder.
WriteBack ==
    /\ pc = "serialized"
    /\ ~ document.written
    /\ LET d == LoadOutput(lOutput)
       IN  IF NotDelimited(lOutput)
           THEN /\ pc' = "error"
                /\ err' = "ParserError"
                /\ UNCHANGED << targets, depends, provides, exists, actions, essential,
                                cleans, check_mtime, document >>
           ELSE /\ pc' = "start"
                /\ targets' = d.targets
                /\ depends' = d.depends
                /\ provides' = d.provides
                /\ exists' = d.exists
                /\ actions' = d.actions
                /\ essential' = d.essential
                /\ cleans' = d.cleans
                /\ check_mtime' = d.check_mtime
                /\ document' = [ written |-> TRUE, out |-> lOutput,
                                 fields |-> [ t \in targets |-> Truthy(t) ] ]
                /\ UNCHANGED err
    /\ UNCHANGED << index_essentials, default_targets, is_default, target_name, args,
                    runVars, dProviders, enq, lOrdered, lOutput, result, hook >>

JSONNames == { "a", "b" }

\* Build files over JSONNames with at most one edge.
InitJSON ==
    /\ \E T \in SUBSET JSONNames \ { {} } :
         \E E \in KSubsets({ "d", "p" } \X T \X T, 1) :
           /\ targets = T
           /\ depends = [ t \in AllNames |-> { e[3] : e \in { f \in E : f[1] = "d" /\ f[2] = t } } ]
           /\ provides = [ t \in AllNames |-> { e[3] : e \in { f \in E : f[1] = "p" /\ f[2] = t } } ]
           /\ exists \in SUBSET T
           /\ actions \in SUBSET T
           /\ essential \in SUBSET T
           /\ cleans \in SUBSET T
           /\ check_mtime \in SUBSET T
    /\ index_essentials = {}
    /\ default_targets = {}
    /\ is_default = {}
    /\ target_name = [ t \in AllNames |-> t ]
    /\ args = {}
    /\ pc = "start"
    /\ err = "none"
    /\ result = FALSE
    /\ dProviders = << >>
    /\ enq = NoEnq
    /\ lOrdered = << >>
    /\ lOutput = << >>
    /\ document = NoDocument
    /\ hook = NoHook
    /\ InitRun

NextJSON ==
    \/ Initialize
    \/ Serialize
    \/ WriteBack
    \/ JSONOutputCLI

SpecJSON == InitJSON /\ [][NextJSON]_vars

\* ------------------------------------------------------------------------
\* yamake/core.py : Target
\* ------------------------------------------------------------------------
\* Target.is_abstract (no front-end sets _is_abstract)
is_abstract(t) == ~ (t \in exists \/ t \in actions)

\* The value get_mtime stores for a file that exists and is not stat-ed.
ExistsTime == 1

\* Target.get_mtime: 0 stands for None.
get_mtime(t) ==
    IF t \notin exists THEN 0
    ELSE IF fs[t] # 0 THEN (IF t \in check_mtime THEN fs[t] ELSE ExistsTime)
    ELSE 0

\* Target.needs_update, given the collected dependency mtimes.
needs_update(t, dependency_mtimes) ==
    IF t \notin exists THEN TRUE
    ELSE IF get_mtime(t) = 0 THEN TRUE
    ELSE \E dep_mtime \in dependency_mtimes : dep_mtime # 0 /\ dep_mtime > get_mtime(t)

\* self.mtime after get_mtime ran on t
StoreMtime(t) == IF get_mtime(t) # 0 THEN [ mtime EXCEPT ![t] = get_mtime(t) ] ELSE mtime

\* ------------------------------------------------------------------------
\* yamake/core.py : _calculate_providers, _resolve_dependencies
\* ------------------------------------------------------------------------
\* providers[provided] : the names of the targets that provide it
providers ==
    [ t \in { u \in targets : \E p \in targets : u \in provides[p] } |->
        { p \in targets : t \in provides[p] } ]

\* "while prev_set != new_set": the indirect providers are added until
\* nothing is new.
RECURSIVE indirect_providers(_)
indirect_providers(new_set) ==
    LET to_add == UNION { providers[q] : q \in new_set \cap DOMAIN providers }
    IN  IF to_add \subseteq new_set THEN new_set
        ELSE indirect_providers(new_set \cup to_add)

\* full_providers of _calculate_providers
full_providers == [ t \in DOMAIN providers |-> indirect_providers(providers[t]) ]

\* What one visit of the work list adds for the name `current`.
Required(current) ==
    IF current \notin targets THEN {}
    ELSE depends[current] \cup
         (IF is_abstract(current) /\ current \in DOMAIN providers
          THEN providers[current] ELSE {})

RECURSIVE ResolveClosure(_)
ResolveClosure(result_set) ==
    LET more == UNION { Required(c) : c \in result_set } \ result_set
    IN  IF more = {} THEN result_set ELSE ResolveClosure(result_set \cup more)

resolve_dependencies(targets_to_build_, essential_targets) ==
    ResolveClosure(
        IF \E t \in targets_to_build_ : t \notin targets \/ t \in essential
        THEN targets_to_build_ \cup essential_targets
        ELSE targets_to_build_)

\* ------------------------------------------------------------------------
\* yamake/core.py : _order_by_dependencies
\* ------------------------------------------------------------------------
\* The sets of the orderer hold Target objects and, from target.provides and
\* target.depends (never resolved to objects), name strings.
Obj(t) == << "Target", t >>
Str(n) == << "str", n >>

OrderIterations == 10

\* for _ in range(10): the layers of ready targets
RECURSIVE ReadyLayers(_, _, _)
ReadyLayers(depends_set, all_handled, n) ==
    IF n = 0 THEN << >>
    ELSE LET ready == { t \in depends_set :
                          depends[t] = {} \/ \A d \in depends[t] : Str(d) \in all_handled }
         IN  IF ready # {}
             THEN << ready >> \o ReadyLayers(depends_set \ ready,
                                             all_handled \cup { Obj(t) : t \in ready },
                                             n - 1)
             ELSE << >>

\* The layers of _order_by_dependencies, each a set.
OrderLayers(to_build, essential_targets) ==
    LET targets_set == to_build \cap targets
        essential_set == essential_targets \cap targets
        no_deps == { t \in targets_set \cap essential_set : depends[t] = {} }
        with_deps == { t \in targets_set \cap essential_set : depends[t] # {} }
        provides_set == { Obj(t) : t \in essential_set }
                        \cup { Str(n) : n \in ProvidesOf(essential_set) }
        depends_set == { t \in targets_set : Obj(t) \notin provides_set }
    IN  << no_deps, with_deps >> \o ReadyLayers(depends_set, provides_set, OrderIterations)

\* list(layer) for every layer: each set in any order.
RECURSIVE Listings(_)
Listings(layers) ==
    IF layers = << >> THEN { << >> }
    ELSE { p \o rest : p \in Perms(Head(layers)), rest \in Listings(Tail(layers)) }

\* The layers flattened with no target filtered out.
order_by_dependencies_unfiltered(to_build, essential_targets) ==
    Listings(OrderLayers(to_build, essential_targets))

\* [t for layer in layers for t in layer if not t.is_abstract()]
order_by_dependencies(to_build, essential_targets) ==
    { SelectSeq(l, LAMBDA t : ~ is_abstract(t)) :
        l \in Listings(OrderLayers(to_build, essential_targets)) }

\* ------------------------------------------------------------------------
\* yamake/core.py : run_targets
\* ------------------------------------------------------------------------
Msg(level, text, t) == [ level |-> level, text |-> text, target |-> t ]

\* The names of the build set that the index does not hold, taken for every
\* name instead of searched for.
missingNone(to_build) == {}

\* missing = [t for t in targets_to_build if t not in all_targets]
missing(to_build) == to_build \ targets

\* cli.py main: return 0 if success else 1
ExitCode(success) == IF success THEN 0 ELSE 1

\* run_targets up to the execution loop, called with the names, clean_mode
\* and dry_run given; prev is the record kept of the run before.
Begin(names, clean, dry, prev) ==
    /\ args' = names
    /\ clean_mode' = clean
    /\ dry_run' = dry
    /\ previous' = prev
    /\ invoked' = << >>
    /\ returned' = << >>
    /\ err' = "none"
    /\ LET target_names == IF names = {} THEN default_targets ELSE names
           to_build == resolve_dependencies(target_names, index_essentials)
       IN  IF target_names = {}
           THEN /\ messages' = << Msg("", "No targets specified", "") >>
                /\ targets_to_build' = {}
                /\ ordered_targets' = << >>
                /\ position' = 0
                /\ result' = FALSE
                /\ pc' = "done"
           ELSE IF missing(to_build) # {}
           THEN /\ messages' = << Msg("START", "Building targets", ""),
                                  Msg("ERROR", "Missing targets", "") >>
                /\ targets_to_build' = to_build
                /\ ordered_targets' = << >>
                /\ position' = 0
                /\ result' = FALSE
                /\ pc' = "done"
           ELSE /\ messages' = << Msg("START", "Building targets", "") >>
                /\ targets_to_build' = to_build
                /\ ordered_targets' \in order_by_dependencies(to_build, index_essentials)
                /\ position' = 1
                /\ result' = TRUE
                /\ pc' = IF ordered_targets' = << >> THEN "done" ELSE "exec"
    /\ UNCHANGED << declVars, cliVars, fs, mtime >>

RunTargets ==
    /\ pc = "idle"
    /\ \E clean \in BOOLEAN, dry \in BOOLEAN : Begin(args, clean, dry, previous)

\* The same command once more, after it returned.
RunAgain ==
    /\ pc = "done"
    /\ previous.runs = 0
    /\ Begin(args, clean_mode, dry_run,
             [ runs |-> 1, ordered_targets |-> ordered_targets, result |-> result,
               fs |-> fs, messages |-> messages ])

\* The loop without its break: a failure is recorded and the next target is
\* taken all the same.
RecordAndGoOn(t, status, text) ==
    /\ messages' = Append(messages, Msg(IF status THEN "SUCCESS" ELSE "ERROR", text, t))
    /\ position' = position + 1
    /\ pc' = IF position = Len(ordered_targets) THEN "done" ELSE "exec"
    /\ result' = (result /\ status)

\* The end of one pass of the execution loop: the message is recorded and
\* the loop goes on, breaks, or is over.
Record(t, status, text) ==
    /\ messages' = Append(messages, Msg(IF status THEN "SUCCESS" ELSE "ERROR", text, t))
    /\ IF ~ status
       THEN /\ result' = FALSE
            /\ pc' = "done"
            /\ UNCHANGED position
       ELSE /\ position' = position + 1
            /\ pc' = IF position = Len(ordered_targets) THEN "done" ELSE "exec"
            /\ UNCHANGED result

\* A clean pass that runs the build action of the target.
execute_clean_builds(t) ==
    /\ invoked' = Append(invoked, << "action", t >>)
    /\ returned' = Append(returned, "value")
    /\ Record(t, TRUE, "Successfully executed target")
    /\ UNCHANGED fs

\* Target.execute_clean
execute_clean(t) ==
    IF dry_run
    THEN /\ Record(t, TRUE, "Would clean target")
         /\ UNCHANGED << invoked, returned, fs >>
    ELSE IF t \in cleans
    THEN /\ invoked' = Append(invoked, << "clean", t >>)
         /\ \E raised \in BOOLEAN :
              IF raised THEN /\ returned' = Append(returned, "raised")
                             /\ Record(t, FALSE, "Failed to clean target")
                        ELSE /\ returned' = Append(returned, "value")
                             /\ Record(t, TRUE, "Successfully cleaned target")
         /\ \E removed \in BOOLEAN :
              fs' = IF removed THEN [ fs EXCEPT ![t] = 0 ] ELSE fs
    ELSE /\ Record(t, TRUE, "No clean action for target")
         /\ UNCHANGED << invoked, returned, fs >>

\* Target.execute
execute(t) ==
    IF dry_run
    THEN /\ Record(t, TRUE, "Would execute target")
         /\ UNCHANGED << invoked, returned, fs >>
    ELSE IF t \in actions
    THEN /\ invoked' = Append(invoked, << "action", t >>)
         /\ \E outcome \in { "raised", "falsy", "value" } :
              /\ returned' = Append(returned, outcome)
              /\ IF outcome = "raised"
                 THEN Record(t, FALSE, "Failed to execute target")
                 ELSE \* the value returned is read only when it is a dict
                      Record(t, TRUE, "Successfully executed target")
         /\ \E written \in BOOLEAN :
              fs' = IF written /\ t \in exists THEN [ fs EXCEPT ![t] = MaxTime ] ELSE fs
    ELSE /\ Record(t, TRUE, "No action for target")
         /\ UNCHANGED << invoked, returned, fs >>

\* One pass of "for target in ordered_targets".
Execute ==
    /\ pc = "exec"
    /\ LET t == ordered_targets[position]
       IN  IF clean_mode
           THEN /\ execute_clean(t)
                /\ UNCHANGED << mtime, err >>
           ELSE IF depends[t] # {}
           THEN \* d.get_mtime() for d in target.depends: d is a name string
                /\ pc' = "error"
                /\ err' = "AttributeError"
                /\ UNCHANGED << mtime, fs, messages, invoked, returned, position, result >>
           ELSE /\ mtime' = IF t \in exists THEN StoreMtime(t) ELSE mtime
                /\ IF needs_update(t, {}) \/ t \notin exists
                   THEN execute(t)
                   ELSE /\ Record(t, TRUE, "Target is up to date")
                        /\ UNCHANGED << invoked, returned, fs >>
                /\ UNCHANGED err
    /\ UNCHANGED << declVars, args, cliVars, clean_mode, dry_run, targets_to_build,
                    ordered_targets, previous >>

\* ------------------------------------------------------------------------
\* run_targets on an index and a request
\* ------------------------------------------------------------------------
RunNames == { "a", "b" }

RunEdges == KSubsets({ "d", "p" } \X RunNames \X RunNames, MaxEdges)

\* The states of the artifact files of the targets X: absent or dated.
Files(X) ==
    { [ t \in AllNames |-> IF t \in X THEN f[t] ELSE 0 ] : f \in [ X -> 0..MaxTime ] }

\* A file built from a source: art depends on src, both are files on disk.
UpToDate ==
    Decl({ "art", "src" }, { << "art", "src" >> }, {},
         { "art", "src" }, { "art", "src" }, {})

\* An index in which a provides and b depends on the unregistered name d.
UnknownName ==
    Decl({ "a", "b" }, { << "b", "d" >> }, { << "a", "d" >> },
         {}, { "a", "b" }, {})

\* Indexes given in full, each with the requests made on it.
RunScenarios ==
    { << Ambiguous, { "user" } >>, << Ambiguous, { "feat" } >>,
      << AbstractCover, { "user" } >>, << Linear, { "a" } >>,
      << UpToDate, { "art" } >>, << UpToDate, { "src" } >>,
      << UpToDate, { "art", "src" } >>,
      << UnknownName, { "a" } >>, << UnknownName, { "b" } >>,
      << MultipleEssentials, { "b" } >> }

InitIndex ==
    \/ \E E \in RunEdges, NoAct \in KSubsets(RunNames, 1), X \in KSubsets(RunNames, 1),
          Es \in KSubsets(RunNames, 1) :
           /\ InitDecl(Decl(RunNames,
                            { << e[2], e[3] >> : e \in { f \in E : f[1] = "d" } },
                            { << e[2], e[3] >> : e \in { f \in E : f[1] = "p" } },
                            X, RunNames \ NoAct, Es))
           /\ index_essentials = Es
           /\ check_mtime \in SUBSET X
           /\ fs \in Files(X)
           /\ cleans \in { {}, RunNames }
           /\ default_targets = {}
           /\ is_default = {}
           /\ args \in SUBSET RunNames
    \/ \E s \in RunScenarios :
           /\ InitDecl(s[1])
           /\ index_essentials = s[1].essential
           /\ check_mtime \in { {}, s[1].exists }
           /\ fs \in Files(s[1].exists)
           /\ cleans \in { {}, s[1].targets }
           /\ default_targets = {}
           /\ is_default = {}
           /\ args = s[2]

InitRunTargets ==
    /\ InitIndex
    /\ pc = "idle"
    /\ err = "none"
    /\ result = FALSE
    /\ dProviders = << >>
    /\ enq = NoEnq
    /\ lOrdered = << >>
    /\ lOutput = << >>
    /\ document = NoDocument
    /\ hook = NoHook
    /\ mtime = NoFiles
    /\ clean_mode = FALSE
    /\ dry_run = FALSE
    /\ targets_to_build = {}
    /\ ordered_targets = << >>
    /\ position = 0
    /\ messages = << >>
    /\ invoked = << >>
    /\ returned = << >>
    /\ previous = NoRun

NextRun ==
    \/ RunTargets
    \/ RunAgain
    \/ Execute

SpecRun == InitRunTargets /\ [][NextRun]_vars

\* ------------------------------------------------------------------------
\* tinymake.py : Target.queue, Target.BuildQueue, Target.Enqueue and the
\* hooks of the plugin
\* ------------------------------------------------------------------------
\* The build files of this part hold, besides the targets of the model, a
\* provider of "stock"; no target of the model provides another or depends
\* on "base" or "stock", so dPP[t] is empty and t.base is None for each.
\* Target.timestamp after check_timestamp
timestamp(t) == IF t \in exists THEN fs[t] ELSE 0

\* dDependencyMap after self.queue(dDependencyMap, priority, dPP) on t, and
\* after the calls on every target of S.
RECURSIVE queue(_, _, _)
RECURSIVE QueueAll(_, _, _)
queue(t, dDependencyMap, priority) ==
    LET \* len(lProviders) == 0 and self.target is None and self._depends
        through == t \notin exists /\ depends[t] # {}
        m1 == IF through THEN QueueAll(depends[t], dDependencyMap, priority + 1)
              ELSE dDependencyMap
        bQueue == ~ through
        m2 == QueueAll({ dep \in depends[t] : timestamp(dep) >= timestamp(t) },
                       m1, priority + 1)
        \* dDependencyMap[self] of a defaultdict(int)
        m3 == IF t \in DOMAIN m2 THEN m2 ELSE m2 @@ (t :> 0)
    IN  IF bQueue /\ timestamp(t) = 0
        THEN (IF m3[t] < priority THEN [ m3 EXCEPT ![t] = priority ] ELSE m3)
        ELSE m2

QueueAll(S, dDependencyMap, priority) ==
    IF S = {} THEN dDependencyMap
    ELSE LET t == CHOOSE x \in S : TRUE
         IN  QueueAll(S \ { t }, queue(t, dDependencyMap, priority), priority)

\* lSets of BuildQueue, reversed: the deepest priority first.
RECURSIVE lSets(_, _)
lSets(dDependencyMap, i) ==
    IF i < 0 THEN << >>
    ELSE << { t \in DOMAIN dDependencyMap : dDependencyMap[t] = i } >>
         \o lSets(dDependencyMap, i - 1)

MaxPriority(dDependencyMap) ==
    CHOOSE i \in { dDependencyMap[t] : t \in DOMAIN dDependencyMap } :
        \A t \in DOMAIN dDependencyMap : dDependencyMap[t] <= i

\* The queues BuildQueue builds before its hook: each set listed in any
\* order; the empty list when nothing was queued.
BuildQueue(lTargets) ==
    LET dDependencyMap == QueueAll(lTargets, << >>, 0)
    IN  IF DOMAIN dDependencyMap = {} THEN { << >> }
        ELSE Listings(lSets(dDependencyMap, MaxPriority(dDependencyMap)))

\* The queues a hook may hand back for the queue it was given.
HookQueues(lQueue) == { lQueue } \cup (IF lQueue = << >> THEN {} ELSE { Tail(lQueue) })

\* BuildQueue: "if not Target.plugin.PluginChooseBase(...): sys.exit(1)"
PluginChooseBase ==
    /\ pc = "start"
    /\ \E ok \in BOOLEAN :
          /\ hook' = [ name |-> "PluginChooseBase", ok |-> ok, queue |-> << >> ]
          /\ pc' = IF ok THEN "queue" ELSE "exit"
          /\ err' = IF ok THEN err ELSE "SystemExit"
    /\ UNCHANGED << declVars, args, runVars, dProviders, enq, lOrdered, lOutput,
                    document, result >>

\* BuildQueue from the calls of queue to
\* "_, lQueue = Target.plugin.PluginBuildQueue(Target, lQueue)"
PluginBuildQueue ==
    /\ pc = "queue"
    /\ \E lQueue \in BuildQueue(args) :
          IF lQueue = << >>
          THEN /\ lOrdered' = << >>
               /\ UNCHANGED hook
          ELSE \E ok \in BOOLEAN, returned_queue \in HookQueues(lQueue) :
                 /\ hook' = [ name |-> "PluginBuildQueue", ok |-> ok,
                              queue |-> returned_queue ]
                 /\ lOrdered' = returned_queue
    /\ pc' = "enqueue"
    /\ UNCHANGED << declVars, args, runVars, dProviders, enq, err, lOutput, document,
                    result >>

\* Enqueue after BuildQueue:
\* "_, lQueue = Target.plugin.PluginEnqueueTargets(Target, lQueue)" and
\* "return True, lQueue, lAmbiguous, dPP"
PluginEnqueueTargets ==
    /\ pc = "enqueue"
    /\ \E ok \in BOOLEAN, returned_queue \in HookQueues(lOrdered) :
          /\ hook' = [ name |-> "PluginEnqueueTargets", ok |-> ok,
                       queue |-> returned_queue ]
          /\ lOrdered' = returned_queue
    /\ result' = TRUE
    /\ pc' = "done"
    /\ UNCHANGED << declVars, args, runVars, dProviders, enq, err, lOutput, document >>

TinyNames == { "a", "b" }

\* Build files over TinyNames with at most one depends edge and no target
\* that depends on itself, the files of the targets absent or dated.
InitTiny ==
    /\ \E E \in KSubsets({ e \in TinyNames \X TinyNames : e[1] # e[2] }, 1),
          X \in SUBSET TinyNames :
           /\ InitDecl(Decl(TinyNames, E, {}, X, {}, {}))
           /\ fs \in Files(X)
    /\ cleans = {}
    /\ check_mtime = {}
    /\ index_essentials = {}
    /\ default_targets = {}
    /\ is_default = {}
    /\ args \in SUBSET TinyNames \ { {} }
    /\ pc = "start"
    /\ err = "none"
    /\ result = FALSE
    /\ dProviders = << >>
    /\ enq = NoEnq
    /\ lOrdered = << >>
    /\ lOutput = << >>
    /\ document = NoDocument
    /\ hook = NoHook
    /\ mtime = NoFiles
    /\ clean_mode = FALSE
    /\ dry_run = FALSE
    /\ targets_to_build = {}
    /\ ordered_targets = << >>
    /\ position = 0
    /\ messages = << >>
    /\ invoked = << >>
    /\ returned = << >>
    /\ previous = NoRun

NextTiny ==
    \/ PluginChooseBase
    \/ PluginBuildQueue
    \/ PluginEnqueueTargets

SpecTiny == InitTiny /\ [][NextTiny]_vars

\* ------------------------------------------------------------------------
\* yamake/core.py : Target.execute with an action that returns a mapping
\* ------------------------------------------------------------------------
ExecuteNames == { "a", "b" }

\* How many times execute is called in one behaviour.
MaxExecutes == 2

\* The keys an action puts into the mapping it returns: attributes of the
\* target, and "note", which no target has.
MappingKeys ==
    { "name", "depends", "provides", "action_func", "clean_func", "essential",
      "mtime", "note" }

\* hasattr(self, key)
hasattr(key) == key # "note"

\* setattr(self, key, value) for one of the attributes that are variables here
\* (value is the one of the four that fits the key), or nothing at all.
setattr(t, key, names, n, f, m) ==
    /\ target_name' = IF key = "name" THEN [ target_name EXCEPT ![t] = n ] ELSE target_name
    /\ depends' = IF key = "depends" THEN [ depends EXCEPT ![t] = names ] ELSE depends
    /\ provides' = IF key = "provides" THEN [ provides EXCEPT ![t] = names ] ELSE provides
    /\ actions' = IF key = "action_func"
                  THEN (IF f THEN actions \cup { t } ELSE actions \ { t }) ELSE actions
    /\ cleans' = IF key = "clean_func"
                 THEN (IF f THEN cleans \cup { t } ELSE cleans \ { t }) ELSE cleans
    /\ essential' = IF key = "essential"
                    THEN (IF f THEN essential \cup { t } ELSE essential \ { t }) ELSE essential
    /\ mtime' = IF key = "mtime" THEN [ mtime EXCEPT ![t] = m ] ELSE mtime

\* What execute returns, kept as the last message and the result.
Returns(status, text, t) ==
    /\ result' = status
    /\ messages' = Append(messages, [ target |-> target_name'[t], level |-> "", text |-> text ])

\* Target.execute on the target registered as t. The action raises, returns
\* something that is no dict, or returns a dict with one key or none.
TargetExecute ==
    /\ pc = "idle"
    /\ Len(messages) < MaxExecutes
    /\ \E t \in targets :
         IF dry_run
         THEN /\ UNCHANGED << target_name, depends, provides, actions, cleans, essential,
                              mtime, invoked, returned >>
              /\ Returns(TRUE, "Would execute target", t)
         ELSE IF t \in actions
         THEN /\ invoked' = Append(invoked, << "action", t >>)
              /\ \E outcome \in { "raised", "value", "dict" } :
                   /\ returned' = Append(returned, outcome)
                   /\ IF outcome = "dict"
                      THEN \E key \in MappingKeys \cup { "none" }, names \in SUBSET ExecuteNames,
                              n \in ExecuteNames, f \in BOOLEAN, m \in 0..MaxTime :
                                IF key \in MappingKeys /\ hasattr(key)
                                THEN setattr(t, key, names, n, f, m)
                                ELSE UNCHANGED << target_name, depends, provides, actions,
                                                  cleans, essential, mtime >>
                      ELSE UNCHANGED << target_name, depends, provides, actions, cleans,
                                        essential, mtime >>
                   /\ IF outcome = "raised"
                      THEN Returns(FALSE, "Failed to execute target", t)
                      ELSE Returns(TRUE, "Successfully executed target", t)
         ELSE /\ UNCHANGED << target_name, depends, provides, actions, cleans, essential,
                              mtime, invoked, returned >>
              /\ Returns(TRUE, "No action for target", t)
    /\ UNCHANGED << targets, exists, check_mtime, index_essentials, default_targets,
                    is_default, args, pc, err, cliVars, fs, clean_mode, dry_run,
                    targets_to_build, ordered_targets, position, previous >>

\* An index of one or two targets, nothing executed yet.
InitExecute ==
    /\ \E T \in SUBSET ExecuteNames \ { {} } :
         \E E \in KSubsets({ "d", "p" } \X T \X T, 1), A \in SUBSET T, C \in SUBSET T :
           /\ InitDecl(Decl(T, { << e[2], e[3] >> : e \in { f \in E : f[1] = "d" } },
                            { << e[2], e[3] >> : e \in { f \in E : f[1] = "p" } },
                            {}, A, {}))
           /\ cleans = C
    /\ check_mtime = {}
    /\ index_essentials = {}
    /\ default_targets = {}
    /\ is_default = {}
    /\ args = {}
    /\ pc = "idle"
    /\ err = "none"
    /\ result = FALSE
    /\ dProviders = << >>
    /\ enq = NoEnq
    /\ lOrdered = << >>
    /\ lOutput = << >>
    /\ document = NoDocument
    /\ hook = NoHook
    /\ fs = NoFiles
    /\ mtime = NoFiles
    /\ clean_mode = FALSE
    /\ dry_run \in BOOLEAN
    /\ targets_to_build = {}
    /\ ordered_targets = << >>
    /\ position = 1
    /\ messages = << >>
    /\ invoked = << >>
    /\ returned = << >>
    /\ previous = NoRun

NextExecute == TargetExecute

SpecExecute == InitExecute /\ [][NextExecute]_vars

\* ------------------------------------------------------------------------
\* yamake/core.py : TargetIndex and the decorators
\* ------------------------------------------------------------------------
IndexNames == { "a", "b" }

\* TargetIndex.register of Target(name, action_func, depends, essential,
\* is_default): the entry of the name is replaced, the index sets only grow.
register(name, has_action, deps, ess, dflt) ==
    /\ targets' = targets \cup { name }
    /\ actions' = IF has_action THEN actions \cup { name } ELSE actions \ { name }
    /\ depends' = [ depends EXCEPT ![name] = deps ]
    /\ provides' = [ provides EXCEPT ![name] = {} ]
    /\ exists' = exists \ { name }
    /\ cleans' = cleans \ { name }
    /\ check_mtime' = check_mtime \ { name }
    /\ essential' = IF ess THEN essential \cup { name } ELSE essential \ { name }
    /\ is_default' = IF dflt THEN is_default \cup { name } ELSE is_default \ { name }
    /\ index_essentials' = IF ess THEN index_essentials \cup { name } ELSE index_essentials
    /\ default_targets' = IF dflt THEN default_targets \cup { name } ELSE default_targets
    /\ target_name' = [ target_name EXCEPT ![name] = name ]

\* index.register(Target(...)) called by a build file, with no action
Register ==
    /\ pc = "idle"
    /\ \E name \in IndexNames, ess \in BOOLEAN, dflt \in BOOLEAN :
          register(name, FALSE, {}, ess, dflt)
    /\ UNCHANGED << args, pc, err, result, cliVars, runVars >>

\* @target(name=..., essential=...)
TargetDecorator ==
    /\ pc = "idle"
    /\ \E name \in IndexNames, ess \in BOOLEAN : register(name, TRUE, {}, ess, FALSE)
    /\ UNCHANGED << args, pc, err, result, cliVars, runVars >>

\* @task(name=..., depends=...)
TaskDecorator ==
    /\ pc = "idle"
    /\ \E name \in IndexNames :
          \E deps \in SUBSET (IndexNames \ { name }) :
              register(name, TRUE, deps, FALSE, FALSE)
    /\ UNCHANGED << args, pc, err, result, cliVars, runVars >>

\* @default on a function named name
DefaultDecorator ==
    /\ pc = "idle"
    /\ \E name \in IndexNames :
          IF name \in targets
          THEN /\ is_default' = is_default \cup { name }
               /\ UNCHANGED << targets, depends, provides, exists, actions, essential,
                               cleans, check_mtime, index_essentials, default_targets,
                               target_name >>
          ELSE register(name, TRUE, {}, FALSE, TRUE)
    /\ UNCHANGED << args, pc, err, result, cliVars, runVars >>

\* @essential on a function named name
EssentialDecorator ==
    /\ pc = "idle"
    /\ \E name \in IndexNames :
          IF name \in targets
          THEN /\ essential' = essential \cup { name }
               /\ UNCHANGED << targets, depends, provides, exists, actions, cleans,
                               check_mtime, index_essentials, default_targets,
                               is_default, target_name >>
          ELSE register(name, TRUE, {}, TRUE, FALSE)
    /\ UNCHANGED << args, pc, err, result, cliVars, runVars >>

\* TargetIndex.__init__, and run_targets not called yet; it will be called
\* with no target names.
InitTargetIndex ==
    /\ InitDecl(Decl({}, {}, {}, {}, {}, {}))
    /\ cleans = {}
    /\ check_mtime = {}
    /\ index_essentials = {}
    /\ default_targets = {}
    /\ is_default = {}
    /\ args = {}
    /\ pc = "idle"
    /\ err = "none"
    /\ result = FALSE
    /\ dProviders = << >>
    /\ enq = NoEnq
    /\ lOrdered = << >>
    /\ lOutput = << >>
    /\ document = NoDocument
    /\ hook = NoHook
    /\ InitRun

NextIndex ==
    \/ Register
    \/ TargetDecorator
    \/ TaskDecorator
    \/ DefaultDecorator
    \/ EssentialDecorator
    \/ RunTargets
    \/ RunAgain
    \/ Execute

SpecIndex == InitTargetIndex /\ [][NextIndex]_vars

\* ------------------------------------------------------------------------
\* Properties of BuildCLI (yamake.py), checked under SpecCLI
\* ------------------------------------------------------------------------
\* Builder.Initialize accepts the declaration file.
ValidGraph == UnknownNames = {} /\ CheckTargets(SortByName(targets)) = "ok"

\* BuildCLI returned the ordered sequence.
Ordered == pc = "done" /\ result

\* C1: in the sequence the orderer returns, every concrete dependency of a
\* target that occurs in the sequence occurs at an earlier position than the
\* target, essentials and providers of essentials included.
C1_DependenciesPrecede ==
    Ordered =>
        \A i \in 1..Len(lOrdered) :
            \A d \in depends[lOrdered[i]] :
                (~ IsAbstract(d) /\ d \in Range(lOrdered)) =>
                    \E j \in 1..(i - 1) : lOrdered[j] = d

\* C3: for a valid graph and a non-empty request, Enqueue as consumed by
\* BuildCLI ends either in success with an empty residual depends set and an
\* ordered queue, or in a non-empty ambiguity set with nothing ordered; it
\* ends in no other way and never in both.
C3_ResolveOutcome ==
    (ValidGraph /\ args \cap targets # {}) =>
        /\ pc # "error"
        /\ pc = "done" =>
              \/ result /\ enq.lDepends = {}
              \/ ~ result /\ enq.lDepends # {} /\ lOrdered = << >>

\* C4: the sequence the orderer returns holds each target at most once.
C4_AtMostOnce == Ordered => NoDup(lOrdered)

\* The request closure: the requested targets and everything they depend on.
RECURSIVE RequestClosure(_)
RequestClosure(S) ==
    LET more == DependsOf(S \cap targets) \ S
    IN  IF more = {} THEN S ELSE RequestClosure(S \cup more)

\* The members of the essential family: the targets flagged essential and
\* the targets that provide one.
EssentialMembers == BuilderEssentials \cup UNION { DirectProviders(e) : e \in BuilderEssentials }

\* d is an abstract target with several providers, each depending on an
\* essential of its own, exactly one of which the request closure requires.
SelectedByEssential(d) ==
    /\ IsAbstract(d)
    /\ Cardinality(DirectProviders(d)) > 1
    /\ \A p \in DirectProviders(d) : Cardinality(depends[p] \cap EssentialMembers) = 1
    /\ \A p, q \in DirectProviders(d) :
          p # q => depends[p] \cap depends[q] \cap EssentialMembers = {}
    /\ Cardinality({ p \in DirectProviders(d) :
                       depends[p] \cap EssentialMembers \cap RequestClosure(args) # {} }) = 1

\* C10: when an abstract dependency has several providers that each depend
\* on a different essential and the request closure requires exactly one of
\* those essentials, Enqueue ends with the provider that depends on that
\* essential in the queue, none of the other providers in it, and no
\* ambiguity.
C10_EssentialSelection ==
    (ValidGraph /\ pc \in { "enqueued", "done" }) =>
        \A d \in RequestClosure(args) \cap targets :
            SelectedByEssential(d) =>
                /\ enq.lDepends = {}
                /\ \A p \in DirectProviders(d) :
                      p \in enq.lQueueSet <=>
                          depends[p] \cap EssentialMembers \cap RequestClosure(args) # {}

\* C11: when resolve ends with an abstract dependency unresolved between two
\* or more providers, none of the providers is in the queue, the dependency
\* is in the ambiguity set, and the candidates reported for it are exactly
\* the targets that list it in their provides.
C11_AmbiguityReport ==
    (ValidGraph /\ pc = "done" /\ ~ result) =>
        \A d \in enq.lDepends :
            (IsAbstract(d) /\ Cardinality(DirectProviders(d)) > 1) =>
                /\ DirectProviders(d) \cap enq.lQueueSet = {}
                /\ d \in DOMAIN lOutput
                /\ lOutput[d] = DirectProviders(d)

\* Everything the targets of S provide, directly or through other targets.
RECURSIVE ProvidesClosure(_)
ProvidesClosure(S) ==
    LET more == ProvidesOf(S \cap targets) \ S
    IN  IF more = {} THEN S ELSE ProvidesClosure(S \cup more)

\* Some target reaches itself through one or more depends edges.
DependsCycle == \E t \in targets : t \in RequestClosure(depends[t])

\* Some target provides itself, directly or through other targets.
ProvidesCycle == \E t \in targets : t \in ProvidesClosure(provides[t])

\* Builder.Initialize is over.
Loaded == pc # "start" /\ pc # "idle"

C13_CyclicProvidesRejected ==
    (Loaded /\ ProvidesCycle /\ UnknownNames = {} /\ ~ DependsCycle) =>
        pc = "error" /\ err = "CYCLIC PROVIDE"

\* C15: after a successful load no target has two or more essentials among
\* its depends.
C15_OneEssentialPerTarget ==
    pc = "initialized" =>
        \A t \in targets : Cardinality(depends[t] \cap BuilderEssentials) <= 1

\* C16: when the request is empty and there is no target "default" with
\* depends, Enqueue returns failure to BuildCLI: no exception is raised and
\* nothing is ordered.
C16_NoRequestFails ==
    (ValidGraph /\ args = {} /\ DefaultDepends = {} /\ Loaded) =>
        /\ pc # "error"
        /\ lOrdered = << >>
        /\ ~ result

\* C25: when Enqueue returns with no residual dependency, every dependency
\* of every member of the queue set is in full_provides (the queue set
\* united with what it provides).
C25_QueueClosed ==
    (ValidGraph /\ pc \in { "enqueued", "done" } /\ enq.lDepends = {}) =>
        \A t \in enq.lQueueSet : depends[t] \subseteq enq.lFullProvides

\* ------------------------------------------------------------------------
\* Properties of run_targets (yamake/core.py), checked under SpecRun
\* ------------------------------------------------------------------------
\* run_targets resolved and ordered the request.
Resolved == pc \in { "exec", "done" } /\ result /\ targets_to_build # {}

\* C2: after a resolve of a valid graph that reports success, exactly one
\* provider of every abstract target of the build set is in the build set.
C2_ExactlyOneProvider ==
    (ValidGraph /\ Resolved) =>
        \A d \in targets_to_build \cap DOMAIN providers :
            is_abstract(d) => Cardinality(providers[d] \cap targets_to_build) = 1

\* C5: the same command run twice on the same declarations, request and
\* files (a dry run changes none) yields the same ordered sequence.
C5_SameSequence ==
    (previous.runs = 1 /\ dry_run /\ pc \in { "exec", "done" } /\ previous.fs = fs) =>
        ordered_targets = previous.ordered_targets

\* The target the execution loop is at.
Current == ordered_targets[position]

\* The concrete dependencies of t.
ConcreteDepends(t) == { d \in depends[t] \cap targets : ~ is_abstract(d) }

\* C6: in build mode (no dry run) on a valid graph, when the loop reaches a
\* target whose
\* artifact exists and none of whose concrete dependencies is newer, the
\* action is not invoked and the message 'up to date' is recorded.
C6_UpToDateSkipped ==
    [][ ( /\ ValidGraph
          /\ pc = "exec" /\ ~ clean_mode /\ ~ dry_run
          /\ Current \in exists /\ get_mtime(Current) # 0
          /\ \A d \in ConcreteDepends(Current) : get_mtime(d) <= get_mtime(Current) )
        => /\ invoked' = invoked
           /\ messages' = Append(messages, Msg("SUCCESS", "Target is up to date", Current))
      ]_vars

\* C7: in build mode (no dry run) on a valid graph, when the loop reaches a
\* target with an
\* action that has no artifact, or whose artifact is missing, or one of whose
\* concrete dependencies is newer than it, the action is invoked.
C7_StaleInvoked ==
    [][ ( /\ ValidGraph
          /\ pc = "exec" /\ ~ clean_mode /\ ~ dry_run
          /\ Current \in actions
          /\ \/ Current \notin exists
             \/ get_mtime(Current) = 0
             \/ \E d \in ConcreteDepends(Current) : get_mtime(d) > get_mtime(Current) )
        => invoked' = Append(invoked, << "action", Current >>)
      ]_vars

\* A callback of a target failed: its error message is in messages.
FailedAt(k) == messages[k].level = "ERROR" /\ messages[k].target # ""

\* C8: when the action or clean action of a target fails, run_targets is
\* over with success False, the failure is the last message, the messages
\* hold the outcome of every target up to the failing one, and no callback
\* of a later target of the sequence was invoked.
C8_FirstFailureStops ==
    \A k \in 1..Len(messages) :
        FailedAt(k) =>
            /\ k = Len(messages)
            /\ pc = "done"
            /\ ~ result
            /\ Len(messages) = position + 1
            /\ \A j \in 1..position : messages[j + 1].target = ordered_targets[j]
            /\ \A i \in 1..Len(invoked) :
                  \E j \in 1..position : ordered_targets[j] = invoked[i][2]
            /\ invoked[Len(invoked)][2] = ordered_targets[position]

\* A target failed and a later target of the sequence was left alone.
C8_Witness ==
    /\ pc = "done"
    /\ ~ result
    /\ Len(messages) > 1
    /\ FailedAt(Len(messages))
    /\ position < Len(ordered_targets)
    /\ \A i \in 1..Len(invoked) : invoked[i][2] # ordered_targets[position + 1]

\* C14: when a name in the depends or provides of a registered target
\* matches no registered target, run_targets fails and no callback is
\* invoked.
C14_UnknownNameFails ==
    UnknownNames # {} =>
        /\ invoked = << >>
        /\ pc = "done" => ~ result

\* C17: when run_targets has no target to build or finds a name of the build
\* set missing from the index, no callback has been invoked, the result is
\* failure and the command line exits with a code other than zero.
C17_FailureInvokesNothing ==
    (pc # "idle" /\ (args = {} \/ targets_to_build \ targets # {})) =>
        /\ invoked = << >>
        /\ pc = "done"
        /\ ~ result
        /\ ExitCode(result) # 0

\* run_targets returned on a missing name although the request named a
\* target that has an action.
C17_Witness ==
    /\ pc = "done"
    /\ targets_to_build \ targets # {}
    /\ args \cap actions # {}
    /\ messages[Len(messages)].text = "Missing targets"
    /\ invoked = << >>
    /\ ~ result

\* C18: when the action of a target raised or returned a falsy value, the
\* run ends in failure with an error message that names the target.
C18_FailedActionReported ==
    (pc = "done" /\ ~ clean_mode /\ returned # << >>
        /\ returned[Len(returned)] \in { "raised", "falsy" }) =>
        /\ ~ result
        /\ messages[Len(messages)].level = "ERROR"
        /\ messages[Len(messages)].target = invoked[Len(invoked)][2]

\* C19: no abstract target is in the ordered sequence (of run_targets or of
\* BuildCLI) and no callback of an abstract target is invoked, whether the
\* abstract target was requested or is a dependency.
C19_AbstractNeverRuns ==
    /\ \A i \in 1..Len(ordered_targets) : ~ is_abstract(ordered_targets[i])
    /\ \A i \in 1..Len(invoked) : ~ is_abstract(invoked[i][2])
    /\ \A i \in 1..Len(lOrdered) : ~ IsAbstract(lOrdered[i])

\* A run that was asked for an abstract target, resolved it and invoked a
\* callback.
C19_Witness ==
    /\ pc = "done"
    /\ result
    /\ \E t \in args \cap targets : is_abstract(t) /\ t \in targets_to_build
    /\ ordered_targets # << >>
    /\ invoked # << >>

\* C20: in clean mode no build action is invoked; a clean callback is invoked
\* only for a target that has one, outside a dry run, and a target without
\* one is recorded as a success with the message 'no clean action'.
C20_CleanModeNeverBuilds ==
    [][ (pc = "exec" /\ clean_mode) =>
            /\ \A i \in 1..Len(invoked') : invoked'[i][1] = "clean"
            /\ \/ invoked' = invoked
               \/ /\ Current \in cleans
                  /\ ~ dry_run
                  /\ invoked' = Append(invoked, << "clean", Current >>)
            /\ (Current \notin cleans /\ ~ dry_run) =>
                  /\ invoked' = invoked
                  /\ messages' = Append(messages,
                        Msg("SUCCESS", "No clean action for target", Current))
                  /\ result' = result ]_vars

\* A clean run that invoked the clean callback of a target that has a build
\* action, and invoked nothing else.
C20_Witness ==
    /\ pc = "done"
    /\ clean_mode
    /\ ~ dry_run
    /\ result
    /\ invoked # << >>
    /\ \A i \in 1..Len(invoked) :
          invoked[i][1] = "clean" /\ invoked[i][2] \in actions

\* C21: with dry_run set, in build mode and in clean mode, run_targets on a
\* valid index and a request it can resolve invokes no callback, ends without
\* an exception and returns success.
C21_DryRunInvokesNothing ==
    (pc # "idle" /\ dry_run /\ ValidGraph /\ args # {}) =>
        /\ invoked = << >>
        /\ pc # "error"
        /\ pc = "done" => result

\* ------------------------------------------------------------------------
\* Properties of the index (yamake/core.py), checked under SpecIndex
\* ------------------------------------------------------------------------
\* C22: index.default_targets is the set of the registered targets whose
\* is_default flag is set and index.essentials the set of those whose
\* essential flag is set, so that run_targets without target names builds
\* the targets marked default.
C22_IndexSetsMatchFlags ==
    /\ default_targets = targets \cap is_default
    /\ index_essentials = targets \cap essential
    /\ (pc = "done" /\ targets \cap is_default # {}) =>
            messages[1].text = "Building targets"

\* ------------------------------------------------------------------------
\* Properties of Builder.JSONOutput (yamake.py), checked under SpecJSON
\* ------------------------------------------------------------------------
\* C23: the JSON output of a loaded graph can be written, read back and
\* written again; the second output is the first, and every recognized field
\* of every target of the first graph is a field of the graph read back.
C23_JSONRoundTrip ==
    /\ pc = "error" => err \notin { "TypeError", "ParserError" }
    /\ (pc = "serialized" /\ document.written) =>
            /\ lOutput = document.out
            /\ targets = DOMAIN document.fields
            /\ \A t \in targets : Truthy(t) = document.fields[t]

\* ------------------------------------------------------------------------
\* Properties of the hooks (tinymake.py), checked under SpecTiny
\* ------------------------------------------------------------------------
\* C24: after a hook returned a falsy ok the run is aborted: it does not go
\* on to the next step and the queue the hook returned is not the queue of
\* the run.
C24_RejectAborts ==
    (hook.name # "none" /\ ~ hook.ok) => pc = "exit"

\* ------------------------------------------------------------------------
\* Properties of the orderer of yamake/core.py (SpecRun)
\* ------------------------------------------------------------------------
\* C29: every concrete target of the resolved build set is in the ordered
\* sequence; the orderer drops none of them, whether or not it has
\* dependencies and however deep it lies.
C29_NoneDropped ==
    (ValidGraph /\ Resolved) =>
        \A t \in targets_to_build \cap targets :
            ~ is_abstract(t) => t \in Range(ordered_targets)

\* ------------------------------------------------------------------------
\* Properties of yamake.py Builder.Enqueue and OrderByDepends (SpecCLI), continued
\* ------------------------------------------------------------------------
\* C28: when Enqueue has returned, the queue set holds no excluded essential
\* (an essential other than the chosen ones), not even one that is the only
\* provider of a needed abstract dependency or a dependency of a queued target.
C28_NoExcludedEssentialQueued ==
    (pc \in { "enqueued", "done" }) =>
        enq.lQueueSet \cap enq.lExcludedEssentials = {}

\* The concrete dependencies of t that count for its depth.
DepthDepends(t) ==
    { d \in depends[t] \cap (enq.lQueueSet \cup enq.lProvides) : ~ IsAbstract(d) }

\* 0 without such a dependency, otherwise one more than the deepest of them.
RECURSIVE Depth(_)
Depth(t) ==
    IF DepthDepends(t) = {} THEN 0
    ELSE 1 + (CHOOSE m \in { Depth(d) : d \in DepthDepends(t) } :
                \A d \in DepthDepends(t) : Depth(d) <= m)

\* The layers of the queue set from depth k on, each in name order.
RECURSIVE LayersFrom(_)
LayersFrom(k) ==
    IF \A t \in enq.lQueueSet : Depth(t) < k THEN << >>
    ELSE SortByName({ t \in enq.lQueueSet : Depth(t) = k }) \o LayersFrom(k + 1)

\* C30: the ordered sequence is the layers of equal dependency depth one
\* after the other, the shallowest first, each layer in ascending name order.
C30_DepthLayers == Ordered => lOrdered = LayersFrom(0)

\* ------------------------------------------------------------------------
\* Properties of yamake_builder.py Builder.Enqueue (SpecBuilder)
\* ------------------------------------------------------------------------
\* C26: every abstract dependency for which the disambiguation of a loop
\* iteration found a provider has, at the end of that iteration, its provider
\* in the queue set and has itself moved from the depends to the provides;
\* each of them, when several were resolved in the same iteration.
C26_ResolvedAreCommitted ==
    (pc \in { "loop", "enqueued" }) =>
        \A d \in DOMAIN enq.target :
            enq.target[d] # {} =>
                /\ enq.target[d] \subseteq enq.lQueueSet
                /\ d \notin enq.lDepends
                /\ d \in enq.lProvides

\* The seven candidate sets (a) to (g) for d, from the sets as they were when
\* the iteration reached the disambiguation.
CandidateSets(d) ==
    LET P == dProviders[d]
        b == enq.before
    IN  << P \cap b.lQueueSet,
           P \cap ((b.lProvides \cup b.lQueueSet) \ b.lAbstracts),
           P,
           P \ b.lFullProvides,
           P \ enq.lAbstractDepends,
           P \ b.lAbstracts,
           P \ (b.lAbstracts \cup b.lFullProvides) >>

SizeOne(d) == { i \in 1..7 : Cardinality(CandidateSets(d)[i]) = 1 }

RECURSIVE ProvidersWithin(_, _)
ProvidersWithin(t, n) ==
    IF n = 0 THEN {}
    ELSE LET nearer == ProvidersWithin(t, n - 1)
         IN  { p \in targets : t \in provides[p] \/ provides[p] \cap nearer # {} }

\* The targets that provide t through a chain of one or more provides edges.
ChainProviders(t) == ProvidersWithin(t, Cardinality(targets))

\* A map of providers read at t: no entry is the empty set.
At(map, t) == IF t \in DOMAIN map THEN map[t] ELSE {}

\* C31: for every target the direct providers are exactly the targets whose
\* provides contain it, and the full providers are exactly the targets that
\* provide it through a chain of one or more provides edges, in the map
\* Initialize returns and in the maps of _calculate_providers.
C31_ProvidersExact ==
    /\ pc \in { "initialized", "loop", "enqueued", "done" } =>
            \A t \in targets : At(dProviders, t) = ChainProviders(t)
    /\ \A t \in targets :
            /\ At(providers, t) = { p \in targets : t \in provides[p] }
            /\ At(full_providers, t) = ChainProviders(t)

\* Initialize returned a map in which a target has a provider that is not a
\* direct one.
C31_Witness ==
    /\ pc = "initialized"
    /\ \E t \in targets :
          /\ t \in DOMAIN dProviders
          /\ dProviders[t] # { p \in targets : t \in provides[p] }
          /\ dProviders[t] = ChainProviders(t)

\* ------------------------------------------------------------------------
\* Properties of the resolver of yamake/core.py (SpecRun), continued
\* ------------------------------------------------------------------------
\* The abstract targets of the build set that a target of the build set
\* depends on and that have neither a provider nor depends of their own.
Unprovided ==
    { d \in targets_to_build \cap targets :
        /\ is_abstract(d)
        /\ d \notin DOMAIN providers
        /\ depends[d] = {}
        /\ \E u \in targets_to_build \cap targets : d \in depends[u] }

\* C32: a required abstract dependency without any provider and without
\* depends of its own makes the run fail, and no action is invoked; it is
\* never taken as satisfied.
C32_UnprovidedFails ==
    (pc = "done" /\ ~ clean_mode /\ Unprovided # {}) =>
        /\ ~ result
        /\ invoked = << >>

\* The names the request accounts for: the requested ones, what they depend
\* on along any chain, and the providers of the abstract targets among them.
RECURSIVE AccountedFor(_)
AccountedFor(S) ==
    LET next == S \cup UNION { depends[t] : t \in S \cap targets }
                  \cup { p \in targets : \E d \in S \cap targets :
                                             is_abstract(d) /\ d \in provides[p] }
    IN  IF next = S THEN S ELSE AccountedFor(next)

\* C33: every target of the resolved build set is requested, a transitive
\* dependency of a requested target, or a provider of a required abstract
\* target; an essential that is requested brings in no other essential that
\* it does not depend on.
C33_OnlyRequired ==
    (pc \in { "exec", "done" } /\ args # {} /\ args \subseteq targets) =>
        targets_to_build \subseteq AccountedFor(args)

\* ------------------------------------------------------------------------
\* Properties of Target.execute (SpecExecute)
\* ------------------------------------------------------------------------
\* C34: executing the action of a target changes no target's name, depends,
\* provides or callbacks; of a mapping the action returns, only status fields
\* of the target are taken over.
C34_ExecuteFrame ==
    [][ UNCHANGED << target_name, depends, provides, actions, cleans >> ]_vars

\* ------------------------------------------------------------------------
\* Properties of Builder.Initialize (SpecCLI and SpecBuilder), continued
\* ------------------------------------------------------------------------
\* C35: on every declaration file, with or without cycles, the depends walk
\* and the provides walk that Initialize makes for each target come to an
\* end, with the target accepted or an error raised; no walk goes on for
\* ever, not even one that runs into a cycle its start is not part of.
C35_WalksTerminate == pc # "hang"

\* ------------------------------------------------------------------------
\* Termination of yamake_builder.py Builder.Enqueue (SpecBuilder)
\* ------------------------------------------------------------------------
\* C36: on every valid graph and request Enqueue comes to an end: each pass
\* of the outer loop finishes its two inner loops and leaves a smaller
\* counter that never goes below zero, and the loop is left for the return
\* when the counter has run out, so there are at most BuilderCounter passes.
C36_EnqueueTerminates ==
    [][ (pc = "loop") =>
            /\ enq.counter \in 1..BuilderCounter
            /\ enq'.counter = enq.counter - 1
            /\ pc' \in { "loop", "enqueued" }
            /\ enq'.counter = 0 => pc' = "enqueued" ]_vars

\* The outer loop was left because its counter ran out, with dependencies
\* still unresolved.
C36_Witness ==
    /\ pc = "enqueued"
    /\ enq.counter = 0
    /\ enq.lDepends # {}

\* ------------------------------------------------------------------------
\* Properties of Builder.Initialize (SpecCLI), continued
\* ------------------------------------------------------------------------
\* C37: a declaration file whose depends relation and provides relation are
\* both without a cycle (all names declared) is accepted by Initialize, which
\* raises neither cyclic error, however long the longest dependency chain.
C37_AcyclicAccepted ==
    (Loaded /\ UnknownNames = {} /\ ~ DependsCycle /\ ~ ProvidesCycle) =>
        ~ (pc = "error" /\ err \in { "CYCLIC DEPENDENCY", "CYCLIC PROVIDE" })

====
